---- MODULE Spec2Model ----
(***************************************************************************)
(* Persistence core of Hack-Coms (src/database_handler): the pooled        *)
(* DatabaseHandler, its transaction() scope and TransactionContext, and    *)
(* the six repositories (Project, TextSource, Summary, Translation, Video, *)
(* Link) over the schema of scripts/init_db.py.                            *)
(*                                                                         *)
(* The database is modelled as a committed store plus the write set of the *)
(* one open transaction() scope (PostgreSQL READ COMMITTED: a connection   *)
(* sees committed rows and its own uncommitted writes).  A repository call *)
(* is one action; a pool-bound call commits inside the action, a call made *)
(* through the TransactionContext only extends the scope's write set.      *)
(* Where callers race, a pool-bound call is two actions, its read and its  *)
(* write, each on a connection of its own.                                 *)
(***************************************************************************)
EXTENDS Integers, Sequences, FiniteSets, TLC

VARIABLES
    db,      \* committed rows: [Kinds -> SUBSET Row]
    seq,     \* last value handed out by each table's SERIAL sequence
    tx,      \* the open transaction() scope and its uncommitted write set
    res,     \* what the last call did and returned
    now,     \* CURRENT_TIMESTAMP of the database server
    pool,    \* handler._pool: its idle and checked-out connections, its limits
    scope,   \* per caller: where it is inside get_connection()/transaction()
    conn,    \* per caller: the local variable "connection" (0: None)
    handler, \* handler._initialized, and how many pools it made and closed
    call     \* per caller: the repository call it is inside, between two statements

vars == <<db, seq, tx, res, now, pool, scope, conn, handler, call>>

(***************************************************************************)
(* Bounds of the model.                                                    *)
(***************************************************************************)
MaxIssued == 2      \* ids handed out over all tables (Spec)
MaxChain == 3       \* ids handed out over all tables (SpecChain)
MaxRows == 4        \* ids handed out over all tables (SpecCascade)
MaxBulk == 3        \* ids handed out over all tables (SpecBulk)
MaxStamped == 1     \* ids handed out over all tables (SpecStamp)
MaxEdited == 3      \* ids handed out over all tables (SpecUpdate)
MaxEqId == 2        \* largest id of an entity object that is compared
MaxObjects == 2     \* entity objects in hand at once
MaxExcess == 1      \* how far past its limit a string's length goes
MaxTranslations == 1 \* translation ids handed out (SpecTokens)
MaxWall == 1        \* largest wall-clock reading of a timestamp
MaxTokens == 3      \* longest token list whose text is taken
MaxPos == 2         \* largest pos of a token whose text is taken
MaxScoped == 2      \* ids handed out over all tables (SpecScope)
MaxRacers == 2      \* callers racing on one row
MaxOrphans == 2     \* ids handed out per child table (SpecOrphan)
MaxCreated == 2     \* rows created (SpecCreate)
MaxQueried == 2     \* rows created (SpecQuery)
MaxStale == 1       \* projects created (SpecStale)
MaxNested == 3      \* projects written in scopes (SpecNested)
MaxDeleted == 2     \* projects there to delete (SpecDelete)
MaxGone == 1        \* projects created (SpecGone)
MaxLinks == 2       \* links created (SpecStats)
MaxHours == 100     \* hours of the longest video formatted (SpecDuration)
MaxListed == 3      \* projects in the table that is paged (SpecList)
MaxLimit == 2       \* largest page size tried (SpecList)
MaxId == 2          \* largest id a caller passes as an argument
MaxBatch == 2       \* longest bulk_create batch that is enumerated item by item
MaxOver == 1        \* how far a paged batch may exceed the insert page size
MaxTime == 1        \* largest value of the server clock
NCallers == 3       \* concurrent callers of the pool
PoolSize == 1       \* largest config.pool_size
MaxOverflow == 1    \* largest config.max_overflow
MaxPools == 2       \* pools one handler creates over its life

(***************************************************************************)
(* Program constants.                                                      *)
(***************************************************************************)
PAGE_SIZE == 100    \* execute_values(..., page_size=100)
MinConn == 1        \* ThreadedConnectionPool(minconn=1, ...)
MaxPort == 65535    \* "self.port <= 0 or self.port > 65535"

Kinds == {"Project", "TextSource", "Summary", "Translation", "Video", "Link"}
ChildKinds == Kinds \ {"Project"}
LeafKinds == {"Summary", "Translation", "Video", "Link"}

\* The table a kind's foreign key references (REFERENCES ... in the DDL);
\* also the resource_type each create() passes to NotFoundError.
ParentKind(k) == IF k = "TextSource" THEN "Project" ELSE "TextSource"

\* The tables whose foreign key references table k.
ChildrenOf(k) ==
    CASE k = "Project" -> {"TextSource"}
      [] k = "TextSource" -> LeafKinds
      [] OTHER -> {}

Ids(rows) == {r.id : r \in rows}

EmptyStore == [k \in Kinds |-> {}]
NoIds == [k \in Kinds |-> {}]

RECURSIVE SumOver(_, _)
SumOver(f, S) ==
    IF S = {} THEN 0
    ELSE LET x == CHOOSE y \in S : TRUE IN f[x] + SumOver(f, S \ {x})

Issued == SumOver(seq, Kinds)

(***************************************************************************)
(* Rows, entities and what a connection sees.                              *)
(***************************************************************************)

\* The input of create(): parent is project_id / text_source_id (0 when the
\* caller leaves the dataclass default), ok says whether every other field
\* passes the entity's validate(), tag stands for the entity's content.
Data(parents, tags) == [parent : parents, ok : BOOLEAN, tag : tags]

\* Entity.validate(): the parent reference must be set and positive (child
\* kinds), and the remaining field rules must hold.
Valid(kind, d) ==
    /\ kind \in ChildKinds => d.parent > 0
    /\ d.ok

\* The dataclass instance built from the input, before it has an id.
NewEntity(d) ==
    [id |-> 0, parent |-> d.parent, tag |-> d.tag, is_active |-> TRUE,
     created_at |-> 0, updated_at |-> 0]

\* INSERT ... RETURNING id, created_at, updated_at: the stored row.
NewRow(id, d, stamp) ==
    [id |-> id, parent |-> d.parent, tag |-> d.tag, is_active |-> TRUE,
     created_at |-> stamp, updated_at |-> stamp]

\* What the scope's connection sees: committed rows overlaid with its own
\* uncommitted inserts, updates and deletes.
TxView ==
    [k \in Kinds |->
        {r \in db[k] : r.id \notin tx.del[k] /\ r.id \notin Ids(tx.put[k])}
            \cup tx.put[k]]

\* _execute_query: a context repository reads on the scope's connection, a
\* pool-bound repository on a fresh connection (committed rows only).
ViewCommitted(repo) == db
View(repo) == IF repo = "ctx" THEN TxView ELSE db

\* CURRENT_TIMESTAMP is the start time of the statement's transaction; the
\* driver begins the transaction with the first statement on the connection.
Stamp(repo) == IF repo = "ctx" /\ tx.begun THEN tx.start ELSE now

\* The scope after a statement ran on its connection.
Begin(t) == IF t.begun THEN t ELSE [t EXCEPT !.begun = TRUE, !.start = now]

\* The scope after a repository ran a SELECT.
Looked(repo) == IF repo = "ctx" THEN Begin(tx) ELSE tx

\* A context repository can be called while its scope is open.  A scope
\* whose transaction a failed statement has aborted issues no further
\* statement in this model: it can only exit.
Readable(repo) == repo = "ctx" => (tx.open /\ ~tx.aborted)

\* While a scope is open the model's writes go through its context; the
\* pool-bound repositories keep serving reads.
Callable(repo) == IF repo = "ctx" THEN tx.open /\ ~tx.aborted ELSE ~tx.open

\* create(): "SELECT id FROM <parent table> WHERE id = %s" returned a row.
ParentExistsSkipped(view, kind, p) == TRUE
ParentExists(view, kind, p) == p \in Ids(view[ParentKind(kind)])

\* get_by_id(): the row, as a set (empty when the SELECT returns nothing).
GetById(view, kind, id) == {r \in view[kind] : r.id = id}

\* A schema whose cascade rule reaches the directly referencing table only.
CascadeIdsShallow(store, kind, id) ==
    [k \in Kinds |->
        IF k = kind THEN {id}
        ELSE IF k \in ChildrenOf(kind)
             THEN {r.id : r \in {x \in store[k] : x.parent = id}}
        ELSE {}]

\* ON DELETE CASCADE: the ids that go when row id of table kind is deleted.
CascadeIds(store, kind, id) ==
    LET sources == IF kind = "Project"
                   THEN {r.id : r \in {x \in store["TextSource"] : x.parent = id}}
                   ELSE IF kind = "TextSource" THEN {id} ELSE {}
    IN [k \in Kinds |->
          IF k = kind THEN {id}
          ELSE IF k = "TextSource" THEN sources
          ELSE IF k \in LeafKinds
               THEN {r.id : r \in {x \in store[k] : x.parent \in sources}}
          ELSE {}]

(***************************************************************************)
(* Writes and results.                                                     *)
(***************************************************************************)

\* Whether the call commits its own statement: the pool-bound branch
\* ("with self.db_handler.get_connection() as conn: ... conn.commit()") does,
\* the "if self.connection:" branch leaves that to the enclosing scope.
CommitsAlways(repo) == TRUE
CommitsNever(repo) == FALSE
CommitsInCall(repo) == repo = "pool"

Overlay(store, put, del) ==
    [k \in Kinds |->
        {r \in store[k] : r.id \notin del[k] /\ r.id \notin Ids(put[k])}
            \cup put[k]]

\* The statement's effect: committed at once, or added to the scope's
\* write set.  A pool-bound connection handed back without a commit is
\* rolled back by the pool.
Write(repo, put, del) ==
    IF repo = "pool"
    THEN /\ db' = IF CommitsInCall(repo) THEN Overlay(db, put, del) ELSE db
         /\ tx' = tx
    ELSE IF CommitsInCall(repo)
    THEN /\ db' = Overlay(TxView, put, del)
         /\ tx' = [Begin(tx) EXCEPT !.put = EmptyStore, !.del = NoIds,
                                     !.commits = @ + 1]
    ELSE /\ db' = db
         /\ tx' = [Begin(tx) EXCEPT
                !.put = [k \in Kinds |->
                    {r \in tx.put[k] :
                        r.id \notin del[k] /\ r.id \notin Ids(put[k])}
                        \cup put[k]],
                !.del = [k \in Kinds |-> tx.del[k] \cup (del[k] \cap Ids(db[k]))]]

\* A statement raised psycopg2.Error: get_connection() rolls the pool-bound
\* connection back; the scope's transaction is aborted until it ends.
StatementFailed(repo) ==
    /\ db' = db
    /\ tx' = IF repo = "ctx" THEN [Begin(tx) EXCEPT !.aborted = TRUE] ELSE tx

Result(op, repo, kind, status, ekind, eid, stmts, input, out, id) ==
    [op |-> op, repo |-> repo, kind |-> kind, status |-> status,
     err_kind |-> ekind, err_id |-> eid, stmts |-> stmts,
     commits |-> IF status = "ok" /\ stmts > 0 /\ CommitsInCall(repo)
                    /\ op \notin {"get_by_id"} THEN 1 ELSE 0,
     rollbacks |-> 0, touched |-> 0,
     input |-> input, out |-> out, id |-> id]

NoResult == Result("none", "pool", "Project", "ok", "", 0, 0, <<>>, <<>>, 0)

(***************************************************************************)
(* Repository calls.                                                       *)
(***************************************************************************)

\* <Kind>Repository.create(data).  fault: the INSERT raises psycopg2.Error
\* (FALSE for a call that does not get as far as the INSERT).
\* room: the model has an id left to hand out.
Create(repo, kind, d, fault, room) ==
    /\ Callable(repo)
    /\ kind = "Project" => d.parent = 0
    /\ UNCHANGED <<now, pool, scope, conn, handler, call>>
    /\ IF ~Valid(kind, d) THEN
           /\ ~fault
           /\ res' = Result("create", repo, kind, "ValidationError", "", 0, 0,
                            <<d>>, <<>>, 0)
           /\ UNCHANGED <<db, seq, tx>>
       ELSE IF kind \in ChildKinds /\ ~ParentExists(View(repo), kind, d.parent) THEN
           /\ ~fault
           /\ res' = Result("create", repo, kind, "NotFoundError",
                            ParentKind(kind), d.parent, 1, <<d>>, <<>>, 0)
           /\ tx' = Looked(repo)
           /\ UNCHANGED <<db, seq>>
       ELSE LET lookups == IF kind \in ChildKinds THEN 1 ELSE 0 IN
           IF fault THEN
               /\ res' = Result("create", repo, kind, "DatabaseError", "", 0,
                                lookups + 1, <<d>>, <<>>, 0)
               /\ StatementFailed(repo)
               /\ UNCHANGED seq
           ELSE
               /\ room
               /\ LET row == NewRow(seq[kind] + 1, d, Stamp(repo)) IN
                   /\ seq' = [seq EXCEPT ![kind] = @ + 1]
                   /\ Write(repo, [EmptyStore EXCEPT ![kind] = {row}], NoIds)
                   /\ res' = Result("create", repo, kind, "ok", "", 0,
                                    lookups + 1, <<d>>, <<row>>, row.id)

\* psycopg2.extras.execute_values(cursor, query, values, page_size) followed
\* by cursor.fetchall(): one INSERT statement per page of page_size rows, all
\* rows stored, and the cursor holding the RETURNING rows of the statement
\* executed last.
ExecuteValues(first, batch, stamp, page_size) ==
    LET n == Len(batch)
        rows == [i \in 1..n |-> NewRow(first + i - 1, batch[i], stamp)]
        last_start == ((n - 1) \div page_size) * page_size
    IN [rows |-> rows,
        statements |-> ((n - 1) \div page_size) + 1,
        fetched |-> [j \in 1..(n - last_start) |-> rows[last_start + j]]]

\* "for i, result in enumerate(results): entities[i].id = result['id'] ...":
\* the entities, in input order, after the returned rows were copied onto them.
Redistribute(batch, fetched) ==
    [i \in 1..Len(batch) |->
        IF i <= Len(fetched)
        THEN [NewEntity(batch[i]) EXCEPT !.id = fetched[i].id,
                                         !.created_at = fetched[i].created_at,
                                         !.updated_at = fetched[i].updated_at]
        ELSE NewEntity(batch[i])]

\* bulk_create(): the position of the first item whose validate() raises.
InvalidItemsHead(kind, batch) == {i \in {1} : ~Valid(kind, batch[1])}
InvalidItems(kind, batch) == {i \in 1..Len(batch) : ~Valid(kind, batch[i])}

\* bulk_create(): the items whose parent the batched existence query did not
\* return, in the order "for ts in text_sources" visits them.
MissingParentsNone(view, kind, batch) == {}
MissingParents(view, kind, batch) ==
    IF kind \in ChildKinds
    THEN {i \in 1..Len(batch) : batch[i].parent \notin Ids(view[ParentKind(kind)])}
    ELSE {}

Least(S) == CHOOSE i \in S : \A j \in S : i <= j

\* <Kind>Repository.bulk_create(list_of_data).  fault: an INSERT raises.
BulkCreate(repo, kind, batch, fault, room) ==
    /\ Callable(repo)
    /\ kind = "Project" => \A i \in 1..Len(batch) : batch[i].parent = 0
    /\ UNCHANGED <<now, pool, scope, conn, handler, call>>
    /\ IF batch = <<>> THEN
           /\ ~fault
           /\ res' = Result("bulk_create", repo, kind, "ok", "", 0, 0, batch, <<>>, 0)
           /\ UNCHANGED <<db, seq, tx>>
       ELSE IF InvalidItems(kind, batch) # {} THEN
           /\ ~fault
           /\ res' = Result("bulk_create", repo, kind, "ValidationError", "",
                            Least(InvalidItems(kind, batch)), 0, batch, <<>>, 0)
           /\ UNCHANGED <<db, seq, tx>>
       ELSE IF MissingParents(View(repo), kind, batch) # {} THEN
           /\ ~fault
           /\ res' = Result("bulk_create", repo, kind, "NotFoundError",
                        ParentKind(kind),
                        batch[Least(MissingParents(View(repo), kind, batch))].parent,
                        1, batch, <<>>, 0)
           /\ tx' = Looked(repo)
           /\ UNCHANGED <<db, seq>>
       ELSE LET lookups == IF kind \in ChildKinds THEN 1 ELSE 0 IN
           IF fault THEN
               /\ res' = Result("bulk_create", repo, kind, "DatabaseError", "", 0,
                                lookups + 1, batch, <<>>, 0)
               /\ StatementFailed(repo)
               /\ UNCHANGED seq
           ELSE
               /\ room
               /\ LET ev == ExecuteValues(seq[kind] + 1, batch, Stamp(repo), PAGE_SIZE) IN
                   /\ seq' = [seq EXCEPT ![kind] = @ + Len(batch)]
                   /\ Write(repo,
                            [EmptyStore EXCEPT ![kind] =
                                {ev.rows[i] : i \in 1..Len(batch)}],
                            NoIds)
                   /\ res' = Result("bulk_create", repo, kind, "ok", "", 0,
                                    lookups + ev.statements, batch,
                                    Redistribute(batch, ev.fetched), 0)

\* <Kind>Repository.delete(id).  fault: the DELETE raises psycopg2.Error.
Delete(repo, kind, id, fault) ==
    /\ Callable(repo)
    /\ UNCHANGED <<seq, now, pool, scope, conn, handler, call>>
    /\ IF GetById(View(repo), kind, id) = {} THEN
           /\ ~fault
           /\ res' = Result("delete", repo, kind, "NotFoundError", kind, id, 1,
                            <<>>, <<>>, id)
           /\ tx' = Looked(repo)
           /\ UNCHANGED db
       ELSE IF fault THEN
           /\ res' = Result("delete", repo, kind, "DatabaseError", "", 0, 2,
                            <<>>, <<>>, id)
           /\ StatementFailed(repo)
       ELSE LET gone == CascadeIds(View(repo), kind, id) IN
           /\ Write(repo, EmptyStore, gone)
           /\ res' = [Result("delete", repo, kind, "ok", "", 0, 2, <<>>, <<>>, id)
                        EXCEPT !.touched =
                            SumOver([k \in Kinds |-> Cardinality(gone[k])], Kinds)]

\* <Kind>Repository.get_by_id(id).
Get(repo, kind, id) ==
    LET found == GetById(View(repo), kind, id) IN
    /\ Readable(repo)
    /\ res' = IF found = {}
              THEN Result("get_by_id", repo, kind, "NotFoundError", kind, id, 1,
                          <<>>, <<>>, id)
              ELSE Result("get_by_id", repo, kind, "ok", "", 0, 1, <<>>,
                          <<CHOOSE r \in found : TRUE>>, id)
    /\ tx' = Looked(repo)
    /\ UNCHANGED <<db, seq, now, pool, scope, conn, handler, call>>

\* update(): "setattr(existing_link, key, value)" for is_active, and the
\* UPDATE ... SET is_active = ..., updated_at = CURRENT_TIMESTAMP.
PatchedNothing(old, flag, stamp) == [old EXCEPT !.updated_at = stamp]
Patched(old, flag, stamp) ==
    [old EXCEPT !.is_active = flag, !.updated_at = stamp]

\* LinkRepository.update(id, {"is_active": flag}), as deactivate() and
\* activate() call it: read the row, patch it, validate, write it back.
\* fault: the UPDATE raises psycopg2.Error.
SetActive(repo, id, flag, fault) ==
    LET op == IF flag THEN "activate" ELSE "deactivate"
        found == GetById(View(repo), "Link", id)
    IN
    /\ Callable(repo)
    /\ UNCHANGED <<seq, now, pool, scope, conn, handler, call>>
    /\ IF found = {} THEN
           /\ ~fault
           /\ res' = Result(op, repo, "Link", "NotFoundError", "Link", id, 1,
                            <<>>, <<>>, id)
           /\ tx' = Looked(repo)
           /\ UNCHANGED db
       ELSE IF fault THEN
           /\ res' = Result(op, repo, "Link", "DatabaseError", "", 0, 2,
                            <<>>, <<>>, id)
           /\ StatementFailed(repo)
       ELSE LET old == CHOOSE r \in found : TRUE
                row == Patched(old, flag, Stamp(repo))
            IN
           /\ Write(repo, [EmptyStore EXCEPT !["Link"] = {row}], NoIds)
           /\ res' = Result(op, repo, "Link", "ok", "", 0, 2, <<>>, <<row>>, id)

\* The attributes update_data may name.  "parent" stands for project_id or
\* text_source_id, "tag" for the kind's own updatable fields.
PatchKeys == {"id", "parent", "tag", "is_active", "created_at"}

\* hasattr(existing, key): is_active is a field of Link only, and a Project
\* has no parent reference.
HasAttr(kind, key) ==
    /\ key \in PatchKeys
    /\ key = "is_active" => kind = "Link"
    /\ key = "parent" => kind \in ChildKinds

\* "for key, value in update_data.items(): if hasattr(existing, key) and
\* key != '<parent>_id': setattr(existing, key, value)".
SetsParentToo(kind, key) == HasAttr(kind, key)
Settable(kind, key) == HasAttr(kind, key) /\ key # "parent"

Merged(kind, old, patch) ==
    [f \in DOMAIN old |->
        IF f \in patch.keys /\ Settable(kind, f) THEN patch.to[f] ELSE old[f]]

\* get_update_fields(): the columns of "UPDATE ... SET".  The statement
\* writes them from the merged entity, sets updated_at and is keyed by the
\* id argument.
UpdateFieldsAll(kind) == {"tag", "is_active", "parent", "created_at"}
UpdateFields(kind) == IF kind = "Link" THEN {"tag", "is_active"} ELSE {"tag"}

Updated(kind, old, entity, stamp) ==
    [f \in DOMAIN old |->
        IF f = "updated_at" THEN stamp
        ELSE IF f \in UpdateFields(kind) THEN entity[f]
        ELSE old[f]]

\* <Kind>Repository.update(id, update_data).  patch.ok: the values given pass
\* validate().  fault: the UPDATE raises psycopg2.Error.  free: the row is
\* not locked by another connection.
Update(repo, kind, id, patch, fault, free) ==
    LET found == GetById(View(repo), kind, id) IN
    /\ free
    /\ UNCHANGED <<seq, now, pool, scope, conn, handler, call>>
    /\ IF found = {} THEN
           /\ ~fault
           /\ res' = Result("update", repo, kind, "NotFoundError", kind, id, 1,
                            <<patch>>, <<>>, id)
           /\ tx' = Looked(repo)
           /\ UNCHANGED db
       ELSE LET old == CHOOSE r \in found : TRUE
                entity == Merged(kind, old, patch)
            IN
           IF ~patch.ok THEN
               /\ ~fault
               /\ res' = Result("update", repo, kind, "ValidationError", "", 0, 1,
                                <<patch>>, <<>>, id)
               /\ tx' = Looked(repo)
               /\ UNCHANGED db
           ELSE IF fault THEN
               /\ res' = Result("update", repo, kind, "DatabaseError", "", 0, 2,
                                <<patch>>, <<>>, id)
               /\ StatementFailed(repo)
           ELSE LET row == Updated(kind, old, entity, Stamp(repo)) IN
               /\ Write(repo, [EmptyStore EXCEPT ![kind] = {row}], NoIds)
               /\ res' = Result("update", repo, kind, "ok", "", 0, 2, <<patch>>,
                                <<[entity EXCEPT !.updated_at = row.updated_at]>>,
                                id)

\* A pool-bound statement on a row the open scope has written waits for the
\* scope to end; any other runs at once.
Unlocked(repo, kind, id) ==
    IF repo = "ctx" THEN tx.open /\ ~tx.aborted
    ELSE id \notin Ids(tx.put[kind]) /\ id \notin tx.del[kind]

(***************************************************************************)
(* DatabaseHandler.transaction().                                          *)
(***************************************************************************)

\* entry (the committed rows when the scope was entered) and commits (the
\* conn.commit() calls made on the scope's connection so far) are history
\* kept for stating properties.
NoTx == [open |-> FALSE, aborted |-> FALSE, put |-> EmptyStore, del |-> NoIds,
         begun |-> FALSE, start |-> 0, entry |-> EmptyStore, commits |-> 0]

\* The rows in the scope's write set.
Pending ==
    SumOver([k \in Kinds |-> Cardinality(tx.put[k]) + Cardinality(tx.del[k])],
            Kinds)

\* conn.rollback(): the committed rows afterwards.
AfterRollbackKeeps == TxView
AfterRollback == db

\* conn.commit(): the committed rows afterwards (the server answers the
\* COMMIT of an aborted transaction with a rollback).
AfterCommit == IF tx.aborted THEN db ELSE TxView

\* Entering "with db.transaction() as tx": a connection is acquired and a
\* TransactionContext is built on it.
TransactionEnter ==
    /\ ~tx.open
    /\ tx' = [NoTx EXCEPT !.open = TRUE, !.entry = db]
    /\ res' = Result("transaction_enter", "ctx", "Project", "ok", "", 0, 0,
                     <<>>, <<>>, 0)
    /\ UNCHANGED <<db, seq, now, pool, scope, conn, handler, call>>

\* The block ends without an exception: conn.commit().  fault: the commit
\* itself raises, which the except clause answers with a rollback.
TransactionExit(fault) ==
    /\ tx.open
    /\ db' = IF fault THEN AfterRollback ELSE AfterCommit
    /\ tx' = NoTx
    /\ res' = [Result("transaction_exit", "ctx", "Project",
                      IF fault THEN "TransactionError" ELSE "ok", "", 0, 0,
                      <<>>, <<>>, 0)
                 EXCEPT !.commits = tx.commits + 1,
                        !.rollbacks = IF fault THEN 1 ELSE 0,
                        !.touched = Pending]
    /\ UNCHANGED <<seq, now, pool, scope, conn, handler, call>>

\* An exception propagates out of the block: conn.rollback(), then
\* TransactionError is raised.
TransactionRaise ==
    /\ tx.open
    /\ db' = AfterRollback
    /\ tx' = NoTx
    /\ res' = [Result("transaction_raise", "ctx", "Project", "TransactionError",
                      "", 0, 0, <<>>, <<>>, 0)
                 EXCEPT !.commits = tx.commits, !.rollbacks = 1,
                        !.touched = Pending]
    /\ UNCHANGED <<seq, now, pool, scope, conn, handler, call>>


(***************************************************************************)
(* The connection pool.                                                    *)
(***************************************************************************)

Callers == 1..NCallers

\* No caller is inside a repository call.
NoCall == [op |-> "none"]
NoCalls == [c \in Callers |-> NoCall]

\* Identities of connection objects: enough for every caller to hold one
\* while one more sits idle.
ConnIds == 1..(NCallers + 1)

\* DatabaseHandler._create_connection_pool(): ThreadedConnectionPool(minconn,
\* maxconn, ...) opens minconn connections and keeps them idle.
ThreadedConnectionPool(minconn, maxconn) ==
    [idle |-> 1..minconn, used |-> {}, minconn |-> minconn, maxconn |-> maxconn]

\* "self._pool = None": no pool.  A pool has maxconn >= 1.
NoPool == [idle |-> {}, used |-> {}, minconn |-> 0, maxconn |-> 0]

\* No caller is inside a get_connection() or transaction() scope.
Quiet == \A c \in Callers : scope[c] = "out"

\* pool.getconn(): "if len(self._used) == self.maxconn: raise PoolError".
ExhaustedNever(p) == FALSE
Exhausted(p) == p.idle = {} /\ Cardinality(p.used) = p.maxconn

\* pool.getconn(): an idle connection if there is one, else a new one.
Fresh(p) == CHOOSE id \in ConnIds \ (p.idle \cup p.used) :
                \A other \in ConnIds \ (p.idle \cup p.used) : id <= other
Taken(p) == IF p.idle # {} THEN CHOOSE id \in p.idle : TRUE ELSE Fresh(p)
getconn(p) == [p EXCEPT !.idle = @ \ {Taken(p)}, !.used = @ \cup {Taken(p)}]

\* pool.putconn(connection): the connection leaves the used set; it is kept
\* idle while fewer than minconn connections are idle, else closed.
putconnKeeps(p, id) == p
putconn(p, id) ==
    [p EXCEPT !.used = @ \ {id},
              !.idle = IF Cardinality(@) < p.minconn THEN @ \cup {id} ELSE @]

\* What the caller of the scope sees raised, by what the body raised.
\* get_connection() turns psycopg2.Error into DatabaseConnectionError and
\* lets any other exception pass; transaction() turns every exception of
\* the body, and a failure of its commit, into TransactionError.
Raised(kind, outcome) ==
    IF outcome = "ok" THEN "ok"
    ELSE IF kind = "transaction" THEN "TransactionError"
    ELSE IF outcome = "psycopg2.Error" THEN "DatabaseConnectionError"
    ELSE outcome

Outcomes == {"ok", "psycopg2.Error", "Exception"}

\* Entering "with get_connection()" (kind "connection": execute_query,
\* execute_command, a pool-bound repository call) or "with transaction()".
\* fault: opening a new connection raises psycopg2.OperationalError.
GetConnection(c, kind, fault) ==
    /\ scope[c] = "out"
    /\ UNCHANGED <<db, seq, tx, now, handler, call>>
    /\ IF pool = NoPool THEN
           /\ ~fault
           /\ res' = Result("get_connection", "pool", "Project",
                            "DatabaseConnectionError", "", 0, 0, <<>>, <<>>, 0)
           /\ UNCHANGED <<pool, scope, conn>>
       ELSE IF Exhausted(pool) \/ (fault /\ pool.idle = {}) THEN
           /\ ~Exhausted(pool) \/ ~fault
           /\ res' = Result("get_connection", "pool", "Project",
                            "DatabaseConnectionError", "", 0, 0, <<>>, <<>>, 0)
           /\ UNCHANGED <<pool, scope, conn>>
       ELSE
           /\ ~fault
           /\ pool' = getconn(pool)
           /\ conn' = [conn EXCEPT ![c] = Taken(pool)]
           /\ scope' = [scope EXCEPT ![c] = kind]
           /\ res' = Result("get_connection", "pool", "Project", "ok", "", 0, 0,
                            <<>>, <<>>, 0)

\* The body of the with block ends: normally, with psycopg2.Error or with
\* another exception.  The except clauses run; "finally" is still ahead.
Leave(c, outcome) ==
    /\ scope[c] \in {"connection", "transaction"}
    /\ scope' = [scope EXCEPT ![c] = "finally"]
    /\ res' = Result(scope[c], "pool", "Project", Raised(scope[c], outcome), "",
                     0, 0, <<>>, <<>>, 0)
    /\ UNCHANGED <<db, seq, tx, now, pool, conn, handler, call>>

\* "finally: if connection: self._pool.putconn(connection)".
Finally(c) ==
    /\ scope[c] = "finally"
    /\ pool' = putconn(pool, conn[c])
    /\ conn' = [conn EXCEPT ![c] = 0]
    /\ scope' = [scope EXCEPT ![c] = "out"]
    /\ UNCHANGED <<db, seq, tx, now, res, handler, call>>

\* DatabaseConfig.validate(): the parameter the first failing check names,
\* "" when every check passes.  A missing string is None or "".
ConfigValidate(cfg) ==
    IF ~cfg.host THEN "host"
    ELSE IF ~cfg.database THEN "database"
    ELSE IF ~cfg.username THEN "username"
    ELSE IF ~cfg.password THEN "password"
    ELSE IF cfg.port <= 0 \/ cfg.port > MaxPort THEN "port"
    ELSE IF cfg.pool_size <= 0 THEN "pool_size"
    ELSE IF cfg.max_overflow < 0 THEN "max_overflow"
    ELSE ""

\* What a failing validate() raises.
ConfigRaises == "ValueError"

\* DatabaseHandler(config): "self.config.validate()" runs first; the new
\* handler has no pool and is not initialized.
Construct ==
    /\ res.op = "config"
    /\ res' = [Result("construct", "pool", "Project",
                      IF ConfigValidate(res.input[1]) = "" THEN "ok"
                      ELSE ConfigRaises,
                      ConfigValidate(res.input[1]), 0, 0, res.input, <<>>, 0)
               EXCEPT !.touched = handler.pools]
    /\ pool' = NoPool
    /\ handler' = [handler EXCEPT !.initialized = FALSE]
    /\ UNCHANGED <<db, seq, tx, now, scope, conn, call>>

\* DatabaseHandler.initialize().  fault "pool": creating the pool raises
\* psycopg2.Error; fault "test": the pool is made and "SELECT 1" fails.
\* Either way the caller sees DatabaseConnectionError.
InitializeSets(fault) == fault = "none" \/ handler.initialized
Initialize(fault) ==
    /\ Quiet
    /\ handler.pools < MaxPools
    /\ pool' = IF fault = "pool" THEN pool
               ELSE ThreadedConnectionPool(MinConn, PoolSize + MaxOverflow)
    /\ handler' = [handler EXCEPT
                      !.initialized = InitializeSets(fault),
                      !.pools = IF fault = "pool" THEN @ ELSE @ + 1]
    /\ res' = Result("initialize", "pool", "Project",
                     IF fault = "none" THEN "ok" ELSE "DatabaseConnectionError",
                     "", 0, 0, <<>>, <<>>, 0)
    /\ UNCHANGED <<db, seq, tx, now, scope, conn, call>>

\* DatabaseHandler.close(): "if self._pool: closeall(); self._pool = None;
\* self._initialized = False".
CloseKeepsPool(p) == p
Closed(p) == NoPool
Close ==
    /\ Quiet
    /\ pool' = IF pool # NoPool THEN Closed(pool) ELSE pool
    /\ handler' = IF pool # NoPool
                  THEN [handler EXCEPT !.initialized = FALSE, !.closes = @ + 1]
                  ELSE handler
    /\ res' = Result("close", "pool", "Project", "ok", "", 0, 0, <<>>, <<>>, 0)
    /\ UNCHANGED <<db, seq, tx, now, scope, conn, call>>

\* handler.projects, handler.text_sources, ...: the repository properties.
Repository(kind) ==
    /\ res' = Result("repository", "pool", kind,
                     IF handler.initialized THEN "ok" ELSE "RuntimeError",
                     "", 0, 0, <<>>, <<>>, 0)
    /\ UNCHANGED <<db, seq, tx, now, pool, scope, conn, handler, call>>

\* Time passes on the database server.
Tick ==
    /\ now < MaxTime
    /\ now' = now + 1
    /\ UNCHANGED <<db, seq, tx, res, pool, scope, conn, handler, call>>

(***************************************************************************)
(* Spec: one caller issuing create and delete calls on all six             *)
(* repositories, pool-bound and through one transaction() scope at a time. *)
(***************************************************************************)

Repos == {"pool", "ctx"}
ArgIds == 1..MaxId
Items == Data(0..MaxId, {0})

Init ==
    /\ db = EmptyStore
    /\ seq = [k \in Kinds |-> 0]
    /\ tx = NoTx
    /\ res = NoResult
    /\ now = 0
    /\ pool = ThreadedConnectionPool(MinConn, PoolSize + MaxOverflow)
    /\ scope = [c \in Callers |-> "out"]
    /\ conn = [c \in Callers |-> 0]
    /\ handler = [initialized |-> TRUE, pools |-> 1, closes |-> 0, finalized |-> 0]
    /\ call = NoCalls

Scopes ==
    \/ TransactionEnter
    \/ \E fault \in BOOLEAN : TransactionExit(fault)
    \/ TransactionRaise

Next ==
    \/ \E repo \in Repos, kind \in Kinds, d \in Items, fault \in BOOLEAN :
          Create(repo, kind, d, fault, Issued < MaxIssued)
    \/ \E repo \in Repos, kind \in Kinds, id \in ArgIds, fault \in BOOLEAN :
          Delete(repo, kind, id, fault)
    \/ Scopes

Spec == Init /\ [][Next]_vars

(***************************************************************************)
(* SpecChain: the chain Project - TextSource - Link with reads and the     *)
(* Link soft delete.                                                       *)
(***************************************************************************)

Chain == {"Project", "TextSource", "Link"}

NextChain ==
    \/ \E repo \in Repos, kind \in Chain, d \in Items, fault \in BOOLEAN :
          Create(repo, kind, d, fault, Issued < MaxChain)
    \/ \E repo \in Repos, kind \in Chain, id \in ArgIds, fault \in BOOLEAN :
          Delete(repo, kind, id, fault)
    \/ \E repo \in Repos, id \in ArgIds, flag, fault \in BOOLEAN :
          SetActive(repo, id, flag, fault)
    \/ \E repo \in Repos, kind \in Chain, id \in ArgIds : Get(repo, kind, id)
    \/ Scopes

SpecChain == Init /\ [][NextChain]_vars

(***************************************************************************)
(* SpecCascade: pool-bound creates and deletes over a larger store.        *)
(***************************************************************************)

NextCascade ==
    \/ \E kind \in Kinds, d \in Items : Create("pool", kind, d, FALSE, Issued < MaxRows)
    \/ \E kind \in Kinds, id \in ArgIds, fault \in BOOLEAN :
          Delete("pool", kind, id, fault)

SpecCascade == Init /\ [][NextCascade]_vars

(***************************************************************************)
(* SpecBulk: bulk_create of item-by-item enumerated batches.               *)
(***************************************************************************)

BulkKinds == {"Project", "TextSource"}

\* The parent ids the items of a batch name; 0 is rejected by validate().
BulkParents == {0, 1, 2}

\* The items of a batch: every parent reference with the other fields
\* valid, and one item whose other fields fail validate().  A Project
\* has no parent reference.
BulkItems(kind) ==
    IF kind = "Project" THEN Data({0}, {0})
    ELSE {d \in Data(BulkParents, {0}) : ~d.ok => d.parent = 1}

RECURSIVE SeqsUpTo(_, _)
SeqsUpTo(S, n) ==
    IF n = 0 THEN {<<>>}
    ELSE LET shorter == SeqsUpTo(S, n - 1)
         IN shorter \cup {Append(q, x) : q \in {t \in shorter : Len(t) = n - 1}, x \in S}

Batches(kind) == SeqsUpTo(BulkItems(kind), MaxBatch)

NextBulk ==
    \/ \E repo \in Repos, kind \in BulkKinds :
          \E p \in (IF kind = "Project" THEN {0} ELSE BulkParents \ {0}) :
             Create(repo, kind, [parent |-> p, ok |-> TRUE, tag |-> 0], FALSE,
                    Issued < MaxBulk)
    \/ \E repo \in Repos, kind \in BulkKinds, fault \in BOOLEAN :
          \E batch \in Batches(kind) :
             BulkCreate(repo, kind, batch, fault, Issued + Len(batch) <= MaxBulk)
    \/ Scopes

SpecBulk == Init /\ [][NextBulk]_vars

(***************************************************************************)
(* SpecPage: bulk_create of batches around the insert page size.  The      *)
(* items of a batch carry their position as tag, which tells the stored    *)
(* rows of one batch apart.                                                *)
(***************************************************************************)

PageKinds == {"Project", "TextSource"}

PageSizes == (1..MaxBatch) \cup (PAGE_SIZE..(PAGE_SIZE + MaxOver))

PageBatch(n, p) == [i \in 1..n |-> [parent |-> p, ok |-> TRUE, tag |-> i]]

\* Short batches while few ids are out, then one batch around the page size.
PageRoom(n) ==
    IF n <= MaxBatch THEN Issued + n <= MaxBatch ELSE Issued <= MaxBatch

NextPage ==
    \/ \E kind \in PageKinds, n \in PageSizes, fault \in BOOLEAN :
          \E p \in (IF kind = "Project" THEN {0} ELSE {1}) :
             BulkCreate("pool", kind, PageBatch(n, p), fault, PageRoom(n))
    \/ Tick

SpecPage == Init /\ [][NextPage]_vars

(***************************************************************************)
(* SpecPool: concurrent callers entering and leaving get_connection() and  *)
(* transaction() on one handler, for every valid pool configuration.       *)
(***************************************************************************)

InitPool ==
    /\ db = EmptyStore
    /\ seq = [k \in Kinds |-> 0]
    /\ tx = NoTx
    /\ res = NoResult
    /\ now = 0
    /\ \E pool_size \in 1..PoolSize, max_overflow \in 0..MaxOverflow :
          pool = ThreadedConnectionPool(MinConn, pool_size + max_overflow)
    /\ scope = [c \in Callers |-> "out"]
    /\ conn = [c \in Callers |-> 0]
    /\ handler = [initialized |-> TRUE, pools |-> 1, closes |-> 0, finalized |-> 0]
    /\ call = NoCalls

NextPool ==
    \/ \E c \in Callers, kind \in {"connection", "transaction"}, fault \in BOOLEAN :
          GetConnection(c, kind, fault)
    \/ \E c \in Callers, outcome \in Outcomes : Leave(c, outcome)
    \/ \E c \in Callers : Finally(c)

SpecPool == InitPool /\ [][NextPool]_vars

(***************************************************************************)
(* SpecLife: one handler from construction through initialize() and        *)
(* close(), with callers acquiring connections in between.  close() and    *)
(* initialize() are called while no caller is inside a scope.              *)
(***************************************************************************)

LifeCallers == {1, 2}

InitLife ==
    /\ db = EmptyStore
    /\ seq = [k \in Kinds |-> 0]
    /\ tx = NoTx
    /\ res = NoResult
    /\ now = 0
    /\ pool = NoPool
    /\ scope = [c \in Callers |-> "out"]
    /\ conn = [c \in Callers |-> 0]
    /\ handler = [initialized |-> FALSE, pools |-> 0, closes |-> 0, finalized |-> 0]
    /\ call = NoCalls

NextLife ==
    \/ \E fault \in {"none", "pool", "test"} : Initialize(fault)
    \/ Close
    \/ \E kind \in Kinds : Repository(kind)
    \/ \E c \in LifeCallers, kind \in {"connection", "transaction"}, fault \in BOOLEAN :
          GetConnection(c, kind, fault)
    \/ \E c \in LifeCallers, outcome \in Outcomes : Leave(c, outcome)
    \/ \E c \in LifeCallers : Finally(c)

SpecLife == InitLife /\ [][NextLife]_vars

(***************************************************************************)
(* SpecConfig: DatabaseHandler(config) for configurations around every     *)
(* limit validate() checks.                                                *)
(***************************************************************************)

PortsTried == {0 - 1, 0, 1, MaxPort, MaxPort + 1}

Configs ==
    [host : BOOLEAN, database : BOOLEAN, username : BOOLEAN, password : BOOLEAN,
     port : PortsTried, pool_size : 0..PoolSize,
     max_overflow : (0 - 1)..MaxOverflow]

InitConfig ==
    /\ db = EmptyStore
    /\ seq = [k \in Kinds |-> 0]
    /\ tx = NoTx
    /\ \E cfg \in Configs : res = [NoResult EXCEPT !.op = "config", !.input = <<cfg>>]
    /\ now = 0
    /\ pool = NoPool
    /\ scope = [c \in Callers |-> "out"]
    /\ conn = [c \in Callers |-> 0]
    /\ handler = [initialized |-> FALSE, pools |-> 0, closes |-> 0, finalized |-> 0]
    /\ call = NoCalls

NextConfig == Construct

SpecConfig == InitConfig /\ [][NextConfig]_vars

(***************************************************************************)
(* SpecStamp: updates of one table by a transaction() scope and by         *)
(* pool-bound calls made while the scope is open, as the clock advances.   *)
(***************************************************************************)

StampPatches ==
    {[keys |-> {"tag"}, ok |-> TRUE,
      to |-> [k \in PatchKeys |-> IF k = "is_active" THEN FALSE ELSE t]] :
        t \in 1..MaxId}

NextStamp ==
    \/ Create("pool", "Project", [parent |-> 0, ok |-> TRUE, tag |-> 0], FALSE,
              Issued < MaxStamped)
    \/ \E repo \in Repos, id \in 1..MaxStamped, patch \in StampPatches :
          Update(repo, "Project", id, patch, FALSE, Unlocked(repo, "Project", id))
    \/ \E id \in 1..MaxStamped : Get("ctx", "Project", id)
    \/ Tick
    \/ Scopes

SpecStamp == Init /\ [][NextStamp]_vars

(***************************************************************************)
(* SpecUpdate: update() on projects, text sources and links with           *)
(* update_data naming updatable and non-updatable attributes.              *)
(***************************************************************************)

PatchKeySets ==
    {{}, {"tag"}, {"is_active"}, {"parent"}, {"id", "created_at"},
     {"tag", "parent", "id", "created_at"}}

\* One new value per attribute, none of them a value a stored row of this
\* specification has.
Patches ==
    [keys : PatchKeySets, ok : BOOLEAN,
     to : {[id |-> MaxEdited + 1, parent |-> MaxEdited + 1, tag |-> 1,
            is_active |-> FALSE, created_at |-> MaxTime + 1]}]

NextUpdate ==
    \/ \E kind \in Chain :
          Create("pool", kind,
                 [parent |-> IF kind = "Project" THEN 0 ELSE 1, ok |-> TRUE,
                  tag |-> 0],
                 FALSE, Issued < MaxEdited)
    \/ \E repo \in Repos, kind \in Chain, id \in 1..1, patch \in Patches,
          fault \in BOOLEAN :
          Update(repo, kind, id, patch, fault, Callable(repo) /\ (fault => patch.ok))
    \/ Scopes

SpecUpdate == Init /\ [][NextUpdate]_vars

(***************************************************************************)
(* Entities outside any handler: equality, hashing, validation and the     *)
(* dictionary round trip are functions of the entity objects alone.        *)
(***************************************************************************)

\* No handler, no pool, nothing stored; "r" holds the objects in hand.
Detached(r) ==
    /\ db = EmptyStore
    /\ seq = [k \in Kinds |-> 0]
    /\ tx = NoTx
    /\ res = r
    /\ now = 0
    /\ pool = NoPool
    /\ scope = [c \in Callers |-> "out"]
    /\ conn = [c \in Callers |-> 0]
    /\ handler = [initialized |-> FALSE, pools |-> 0, closes |-> 0, finalized |-> 0]
    /\ call = NoCalls

Given(op, input) == [NoResult EXCEPT !.op = op, !.input = input]

(***************************************************************************)
(* SpecEq: a == b and hash(a) on entity objects.  An object is its class,  *)
(* its id (None written 0), one further field and its identity "ref".      *)
(***************************************************************************)

None == 0
EqKinds == {"Project", "TextSource"}
Refs == 1..MaxObjects

Objects == [kind : EqKinds, id : 0..MaxEqId, name : 0..1, ref : Refs]

\* object.__eq__ and object.__hash__: identity.
ObjectEq(a, b) == a.ref = b.ref
ObjectHash(a) == <<"object", a.ref>>

\* BaseModel.__eq__ and BaseModel.__hash__ as written.
BaseModelEq(a, b) ==
    IF b.kind # a.kind THEN FALSE
    ELSE IF a.id # None /\ b.id # None THEN a.id = b.id
    ELSE ObjectEq(a, b)

BaseModelHash(a) == IF a.id # None THEN <<a.kind, a.id>> ELSE ObjectHash(a)

\* The __eq__ that @dataclass writes into each concrete class: same class
\* and equal field tuples (id, created_at, updated_at, metadata, name, ...);
\* NotImplemented for another class, which "==" settles by identity.
DataclassEq(a, b) ==
    IF b.kind # a.kind THEN ObjectEq(a, b)
    ELSE a.id = b.id /\ a.name = b.name

\* @dataclass with eq=True and no __hash__ in the class body sets
\* __hash__ = None in that class: hash(a) raises TypeError.
DataclassHash(a) == "TypeError"

\* What "a == b" and "hash(a)" resolve to for a concrete entity: the
\* attribute found first in the method resolution order, the concrete class's.
Decorated == {"Project", "TextSource", "Summary", "Translation", "Video", "Link"}

Eq(a, b) == IF a.kind \in Decorated THEN DataclassEq(a, b) ELSE BaseModelEq(a, b)
Hash(a) == IF a.kind \in Decorated THEN DataclassHash(a) ELSE BaseModelHash(a)

InitEq ==
    \E a \in Objects, b \in Objects :
       /\ a.ref = b.ref => a = b
       /\ Detached(Given("objects", <<a, b>>))

Compare ==
    /\ res.op = "objects"
    /\ res' = [res EXCEPT !.op = "eq",
                          !.out = <<Eq(res.input[1], res.input[2]),
                                    Hash(res.input[1]), Hash(res.input[2])>>]
    /\ UNCHANGED <<db, seq, tx, now, pool, scope, conn, handler, call>>

NextEq == Compare

SpecEq == InitEq /\ [][NextEq]_vars

(***************************************************************************)
(* validate() of the six entity classes.  A string is its length and       *)
(* whether strip() leaves nothing of it; None and "" are the string of     *)
(* length 0, which every check of the code treats alike.  An optional      *)
(* number is the empty set (None) or the set of its value.                 *)
(***************************************************************************)

Str(n, blank) == [len |-> n, blank |-> blank]
Empty == Str(0, TRUE)

\* "not s or not s.strip()"
MissingNever(s) == FALSE
Missing(s) == s.len = 0 \/ s.blank

\* "s and len(s) > limit", and "len(s) > limit" after the check that s is
\* not missing.
LongerOrEqual(s, limit) == s.len >= limit
Longer(s, limit) == s.len > limit

\* One element of Translation.tokens.  dict: it is a dictionary; has_token,
\* has_pos: it has the keys; pos_type: the Python type of token['pos'], where
\* bool is a subclass of int (True is 1).
Tok(word, p) ==
    [dict |-> TRUE, has_token |-> TRUE, has_pos |-> TRUE, pos_type |-> "int",
     pos |-> p, token |-> word]

IsInstanceInt(type) == type \in {"int", "bool"}

\* The checks of the "for i, token in enumerate(self.tokens)" body.
TokenRefusedNever(t) == FALSE
TokenRefused(t) ==
    \/ ~t.dict
    \/ ~t.has_token
    \/ ~t.has_pos
    \/ ~IsInstanceInt(t.pos_type)
    \/ t.pos < 0

\* The first check that raises, as <<raises, field>> pairs in code order.
FirstError(checks) ==
    IF \E i \in 1..Len(checks) : checks[i][1]
    THEN checks[CHOOSE i \in 1..Len(checks) :
                   /\ checks[i][1]
                   /\ \A j \in 1..(i - 1) : ~checks[j][1]][2]
    ELSE "ok"

ParentMissing(e) == e.parent <= 0

ProjectValidate(e) ==
    FirstError(<< <<Missing(e.name), "name">>,
                  <<Longer(e.name, 255), "name">>,
                  <<Longer(e.description, 10000), "description">> >>)

TextSourceValidate(e) ==
    FirstError(<< <<ParentMissing(e), "project_id">>,
                  <<Missing(e.title), "title">>,
                  <<Longer(e.title, 255), "title">>,
                  <<Missing(e.content), "content">>,
                  <<Longer(e.source_type, 50), "source_type">>,
                  <<Longer(e.source_url, 500), "source_url">> >>)

SummaryValidate(e) ==
    FirstError(<< <<ParentMissing(e), "text_source_id">>,
                  <<Missing(e.content), "content">>,
                  <<Longer(e.title, 255), "title">>,
                  <<Longer(e.summary_type, 50), "summary_type">> >>)

TranslationValidate(e) ==
    FirstError(<< <<ParentMissing(e), "text_source_id">>,
                  <<Missing(e.language_code), "language_code">>,
                  <<Longer(e.language_code, 10), "language_code">>,
                  <<Longer(e.title, 255), "title">>,
                  <<e.tokens.items = <<>>, "tokens">>,
                  <<~e.tokens.list, "tokens">>,
                  <<\E i \in 1..Len(e.tokens.items) :
                       TokenRefused(e.tokens.items[i]), "tokens">> >>)

VideoValidate(e) ==
    FirstError(<< <<ParentMissing(e), "text_source_id">>,
                  <<Missing(e.file_path), "file_path">>,
                  <<Longer(e.file_path, 500), "file_path">>,
                  <<Longer(e.title, 255), "title">>,
                  <<Longer(e.file_url, 500), "file_url">>,
                  <<\E n \in e.file_size : n < 0, "file_size">>,
                  <<\E n \in e.duration : n < 0, "duration">>,
                  <<Longer(e.format, 20), "format">>,
                  <<Longer(e.thumbnail_path, 500), "thumbnail_path">> >>)

\* url_parses: urlparse(url) gives a scheme and a netloc.
LinkValidate(e) ==
    FirstError(<< <<ParentMissing(e), "text_source_id">>,
                  <<Missing(e.url), "url">>,
                  <<Longer(e.url, 500), "url">>,
                  <<~e.url_parses, "url">>,
                  <<Longer(e.title, 255), "title">>,
                  <<Longer(e.description, 1000), "description">>,
                  <<Longer(e.link_type, 50), "link_type">> >>)

\* entity.validate(): "ok" or the field of the ValidationError raised.
Validate(kind, e) ==
    CASE kind = "Project" -> ProjectValidate(e)
      [] kind = "TextSource" -> TextSourceValidate(e)
      [] kind = "Summary" -> SummaryValidate(e)
      [] kind = "Translation" -> TranslationValidate(e)
      [] kind = "Video" -> VideoValidate(e)
      [] kind = "Link" -> LinkValidate(e)

(***************************************************************************)
(* SpecValidate: validate() on an entity that differs from an acceptable   *)
(* one in at most two fields, with lengths at and about each limit.        *)
(***************************************************************************)

\* The length limits of the string fields.
Limits(kind) ==
    CASE kind = "Project" -> [name |-> 255, description |-> 10000]
      [] kind = "TextSource" -> [title |-> 255, source_type |-> 50, source_url |-> 500]
      [] kind = "Summary" -> [title |-> 255, summary_type |-> 50]
      [] kind = "Translation" -> [language_code |-> 10, title |-> 255]
      [] kind = "Video" -> [file_path |-> 500, title |-> 255, file_url |-> 500,
                            format |-> 20, thumbnail_path |-> 500]
      [] kind = "Link" -> [url |-> 500, title |-> 255, description |-> 1000,
                           link_type |-> 50]

Word == Str(1, FALSE)

\* An entity of each class that validate() is meant to accept.
Fine(kind) ==
    CASE kind = "Project" -> [name |-> Word, description |-> Empty]
      [] kind = "TextSource" ->
            [parent |-> 1, title |-> Word, content |-> Word,
             source_type |-> Word, source_url |-> Empty]
      [] kind = "Summary" ->
            [parent |-> 1, title |-> Empty, content |-> Word,
             summary_type |-> Word]
      [] kind = "Translation" ->
            [parent |-> 1, language_code |-> Word, title |-> Empty,
             tokens |-> [list |-> TRUE, items |-> <<Tok(0, 0)>>]]
      [] kind = "Video" ->
            [parent |-> 1, file_path |-> Word, title |-> Empty,
             file_url |-> Empty, file_size |-> {}, duration |-> {},
             format |-> Empty, thumbnail_path |-> Empty]
      [] kind = "Link" ->
            [parent |-> 1, url |-> Word, url_parses |-> TRUE, title |-> Empty,
             description |-> Empty, link_type |-> Word]

Lengths(limit) == {0, 1} \cup (limit..(limit + MaxExcess))

Strings(lengths) ==
    {Str(n, blank) : n \in lengths, blank \in BOOLEAN} \ {Str(0, FALSE)}

TokensTried ==
    {[list |-> TRUE, items |-> <<>>],
     [list |-> TRUE, items |-> <<Tok(0, 0)>>],
     [list |-> TRUE, items |-> <<Tok(0, 0 - 1)>>],
     [list |-> FALSE, items |-> <<Tok(0, 0)>>]}

\* The values tried for field f of a kind.
Values(kind, f) ==
    IF f \in DOMAIN Limits(kind) THEN Strings(Lengths(Limits(kind)[f]))
    ELSE IF f = "parent" THEN {0 - 1, 0, 1}
    ELSE IF f = "content" THEN Strings({0, 1})
    ELSE IF f \in {"file_size", "duration"} THEN {{}, {0 - 1}, {0}}
    ELSE IF f = "url_parses" THEN BOOLEAN
    ELSE TokensTried

InitValidate ==
    \E kind \in Kinds :
       \E f \in DOMAIN Fine(kind), g \in DOMAIN Fine(kind) :
          \E v \in Values(kind, f), w \in Values(kind, g) :
             Detached([Given("entity", <<[Fine(kind) EXCEPT ![f] = v, ![g] = w]>>)
                          EXCEPT !.kind = kind])

\* entity.validate() raises ValidationError(message, field, value) or returns.
ValidateCall ==
    /\ res.op = "entity"
    /\ LET field == Validate(res.kind, res.input[1]) IN
       res' = [res EXCEPT !.op = "validate",
                          !.status = IF field = "ok" THEN "ok" ELSE "ValidationError",
                          !.out = <<field>>]
    /\ UNCHANGED <<db, seq, tx, now, pool, scope, conn, handler, call>>

NextValidate == ValidateCall

SpecValidate == InitValidate /\ [][NextValidate]_vars

(***************************************************************************)
(* SpecTokens: create, update and bulk_create of translations whose        *)
(* tokens are well or ill formed.  A stored translation's tag is its       *)
(* tokens value.                                                           *)
(***************************************************************************)

\* Elements a caller may put into tokens: a well-formed one, one whose pos is
\* True, a negative pos, a pos that is no int, a missing key of either
\* name, and an element that is no dictionary.
TokenShapes ==
    {Tok(0, 0),
     [Tok(0, 1) EXCEPT !.pos_type = "bool"],
     Tok(0, 0 - 1),
     [Tok(0, 0) EXCEPT !.pos_type = "other"],
     [Tok(0, 0) EXCEPT !.has_pos = FALSE],
     [Tok(0, 0) EXCEPT !.has_token = FALSE],
     [Tok(0, 0) EXCEPT !.dict = FALSE]}

\* tokens values: no element, one element, a well-formed element followed
\* by an ill-formed one, and a value that is no list.
TokenLists ==
    {[list |-> TRUE, items |-> q] :
        q \in {<<>>} \cup {<<t>> : t \in TokenShapes}
                  \cup {<<Tok(0, 0), t>> : t \in TokenShapes \ {Tok(0, 0)}}}
      \cup {[list |-> FALSE, items |-> <<Tok(0, 0)>>]}

\* The input of a translation call: ok is what validate() makes of the
\* entity's fields other than the parent reference.
TranslationData(p, tokens) ==
    [parent |-> p,
     ok |-> TranslationValidate([Fine("Translation") EXCEPT !.tokens = tokens]) = "ok",
     tag |-> tokens]

TokenPatch(tokens) ==
    [keys |-> {"tag"},
     ok |-> TranslationData(1, tokens).ok,
     to |-> [id |-> 0, parent |-> 0, tag |-> tokens, is_active |-> TRUE,
             created_at |-> 0]]

\* bulk_create batches: one item, or a well-formed item beside another.
TokenBatches ==
    LET good == TranslationData(1, [list |-> TRUE, items |-> <<Tok(0, 0)>>])
        items == {TranslationData(1, tokens) :
                     tokens \in {[list |-> TRUE, items |-> <<Tok(0, 0)>>],
                                 [list |-> TRUE, items |-> <<>>],
                                 [list |-> TRUE, items |-> <<Tok(0, 0 - 1)>>]}}
    IN {<<d>> : d \in items} \cup {<<good, d>> : d \in items}

NextTokens ==
    \/ \E kind \in {"Project", "TextSource"} :
          /\ seq[kind] = 0
          /\ Create("pool", kind,
                    [parent |-> IF kind = "Project" THEN 0 ELSE 1, ok |-> TRUE,
                     tag |-> 0],
                    FALSE, TRUE)
    \/ \E repo \in Repos, tokens \in TokenLists :
          Create(repo, "Translation", TranslationData(1, tokens), FALSE,
                 seq["Translation"] < MaxTranslations)
    \/ \E repo \in Repos, id \in 1..MaxTranslations, tokens \in TokenLists :
          Update(repo, "Translation", id, TokenPatch(tokens), FALSE, Callable(repo))
    \/ \E repo \in Repos, batch \in TokenBatches :
          BulkCreate(repo, "Translation", batch, FALSE,
                     seq["Translation"] + Len(batch) <= MaxTranslations)
    \/ Scopes

SpecTokens == Init /\ [][NextTokens]_vars

(***************************************************************************)
(* SpecDict: to_dict() and from_dict().  A datetime is its wall-clock      *)
(* reading, its microseconds and its tzinfo: none (naive), or a zone       *)
(* with its UTC offset, either a fixed-offset timezone or a named zone.    *)
(* An optional value is the empty set (None) or the set of its value.      *)
(***************************************************************************)

TzInfos ==
    {{}, {[named |-> FALSE, offset |-> 0]}, {[named |-> FALSE, offset |-> 0 - 1]},
     {[named |-> TRUE, offset |-> 1]}}

DateTimes == [wall : 0..MaxWall, micro : 0..1, tzinfo : TzInfos]

\* datetime.isoformat(): "YYYY-MM-DDTHH:MM:SS", then ".ffffff" unless the
\* microseconds are 0, then "+HH:MM" if the datetime is aware.
IsoformatSeconds(dt) ==
    [wall |-> dt.wall, fraction |-> {},
     zone |-> {[z |-> FALSE, offset |-> t.offset] : t \in dt.tzinfo}]
Isoformat(dt) ==
    [wall |-> dt.wall,
     fraction |-> IF dt.micro = 0 THEN {} ELSE {dt.micro},
     zone |-> {[z |-> FALSE, offset |-> t.offset] : t \in dt.tzinfo}]

\* s.replace('Z', '+00:00')
ReplaceZ(s) ==
    [s EXCEPT !.zone = {IF t.z THEN [z |-> FALSE, offset |-> 0] ELSE t : t \in s.zone}]

\* datetime.fromisoformat(): no fraction reads as 0 microseconds, an offset
\* becomes a fixed-offset timezone.
FromIsoformat(s) ==
    [wall |-> s.wall,
     micro |-> IF s.fraction = {} THEN 0 ELSE CHOOSE m \in s.fraction : TRUE,
     tzinfo |-> {[named |-> FALSE, offset |-> t.offset] : t \in s.zone}]

\* The fields of BaseModel and one field of the concrete class: tokens for
\* a Translation, the name otherwise.
Metadatas == {<<>>, <<"v">>}

Models ==
    [kind : {"Project", "Translation"}, id : 0..1,
     created_at : {{}} \cup {{dt} : dt \in DateTimes},
     updated_at : {{}} \cup {{dt} : dt \in DateTimes},
     metadata : Metadatas, own : {<<>>, <<Tok(0, 0)>>}]

\* to_dict(): asdict(self) copies every field; a timestamp that is set is
\* replaced by its isoformat() string.
ToDict(e) ==
    [e EXCEPT !.created_at = {Isoformat(dt) : dt \in e.created_at},
              !.updated_at = {Isoformat(dt) : dt \in e.updated_at}]

\* from_dict(): a timestamp that is a str is parsed; cls(**data).
FromDict(d) ==
    [d EXCEPT !.created_at = {FromIsoformat(ReplaceZ(str)) : str \in d.created_at},
              !.updated_at = {FromIsoformat(ReplaceZ(str)) : str \in d.updated_at}]

InitDict ==
    \E e \in Models :
       /\ e.updated_at # {} => e.created_at # {}
       /\ Detached([Given("model", <<e>>) EXCEPT !.kind = e.kind])

ToDictCall ==
    /\ res.op = "model"
    /\ res' = [res EXCEPT !.op = "to_dict", !.out = <<ToDict(res.input[1])>>]
    /\ UNCHANGED <<db, seq, tx, now, pool, scope, conn, handler, call>>

FromDictCall ==
    /\ res.op = "to_dict"
    /\ res' = [res EXCEPT !.op = "from_dict",
                          !.out = <<res.out[1], FromDict(res.out[1])>>]
    /\ UNCHANGED <<db, seq, tx, now, pool, scope, conn, handler, call>>

NextDict == ToDictCall \/ FromDictCall

SpecDict == InitDict /\ [][NextDict]_vars

(***************************************************************************)
(* SpecText: Translation.get_token_text() on validated tokens.  A text is  *)
(* the sequence of its pieces, the words and the " " between them.         *)
(***************************************************************************)

TextWords == {"Hola", "Mundo"}

TextTokens == {Tok(w, p) : w \in TextWords, p \in 0..MaxPos}

\* sorted(tokens, key=lambda x: x['pos']): stable, so an element goes in
\* after the elements already placed whose pos is not larger.
RECURSIVE Insert(_, _)
Insert(sorted, t) ==
    IF sorted = <<>> THEN <<t>>
    ELSE IF sorted[Len(sorted)].pos <= t.pos THEN Append(sorted, t)
    ELSE Append(Insert(SubSeq(sorted, 1, Len(sorted) - 1), t), sorted[Len(sorted)])

SortedAsStored(tokens) == tokens

RECURSIVE Sorted(_)
Sorted(tokens) ==
    IF tokens = <<>> THEN <<>>
    ELSE Insert(Sorted(SubSeq(tokens, 1, Len(tokens) - 1)), tokens[Len(tokens)])

\* " ".join(words)
RECURSIVE Join(_)
Join(words) ==
    IF Len(words) <= 1 THEN words
    ELSE Join(SubSeq(words, 1, Len(words) - 1)) \o <<" ", words[Len(words)]>>

\* get_token_text()
GetTokenText(tokens) ==
    IF tokens = <<>> THEN <<>>
    ELSE LET sorted_tokens == Sorted(tokens)
         IN Join([i \in 1..Len(sorted_tokens) |-> sorted_tokens[i].token])

InitText ==
    \E tokens \in SeqsUpTo(TextTokens, MaxTokens) :
       Detached([Given("tokens", tokens) EXCEPT !.kind = "Translation"])

GetTokenTextCall ==
    /\ res.op = "tokens"
    /\ res' = [res EXCEPT !.op = "get_token_text",
                          !.out = GetTokenText(res.input)]
    /\ UNCHANGED <<db, seq, tx, now, pool, scope, conn, handler, call>>

NextText == GetTokenTextCall

SpecText == InitText /\ [][NextText]_vars

(***************************************************************************)
(* SpecScope: one caller's transaction() scope from entry to the return of *)
(* its connection, with context repository calls in the body and every     *)
(* way the body can end.  Another caller takes and returns connections.    *)
(***************************************************************************)

\* Entering "with db.transaction() as tx": get_connection() takes a
\* connection and a TransactionContext is built on it.
ScopeEnter(c) ==
    /\ scope[c] = "out"
    /\ ~tx.open
    /\ pool # NoPool /\ ~Exhausted(pool)
    /\ pool' = getconn(pool)
    /\ conn' = [conn EXCEPT ![c] = Taken(pool)]
    /\ scope' = [scope EXCEPT ![c] = "transaction"]
    /\ tx' = [NoTx EXCEPT !.open = TRUE, !.entry = db]
    /\ res' = Result("transaction_enter", "ctx", "Project", "ok", "", 0, 0,
                     <<>>, <<>>, 0)
    /\ UNCHANGED <<db, seq, now, handler, call>>

\* transaction(): "except Exception as e" takes whatever the body or the
\* commit raised.
TransactionExcept(thrown) == thrown # "none"

\* get_connection(): "except psycopg2.Error as e".
ConnectionExceptAny(passing) == passing # "none"
ConnectionExcept(passing) == passing = "psycopg2.Error"

\* The transaction status of the scope's connection: idle until the first
\* statement, then in a transaction, in error once a statement failed.
ConnStatus == IF tx.aborted THEN "inerror" ELSE IF tx.begun THEN "intrans" ELSE "idle"

\* The ways the body of a scope ends: normally, with the exception of the
\* context repository call made last, or with an exception of the caller's
\* own code or of a statement run on the context directly.
BodyEnds ==
    {"none", "Exception", "psycopg2.Error"}
        \cup (IF res.repo = "ctx" /\ res.op \in {"create", "update", "get_by_id", "delete"}
                 /\ res.status # "ok"
              THEN {res.status} ELSE {})

\* Leaving "with db.transaction()".  raised: how the body ended.  fault: the
\* conn.commit() of a body that ended normally raises psycopg2.Error.
\* transaction() commits or, on an exception, rolls back and raises
\* TransactionError; get_connection() rolls back and raises
\* DatabaseConnectionError on psycopg2.Error; putconn() rolls a connection
\* back that is still in a transaction.
ScopeLeave(c, raised, fault) ==
    LET thrown == IF raised = "none" /\ fault THEN "psycopg2.Error" ELSE raised
        inner == IF TransactionExcept(thrown) THEN "TransactionError" ELSE thrown
        outer == IF ConnectionExcept(inner) THEN "DatabaseConnectionError" ELSE inner
        ended == TransactionExcept(thrown) \/ ConnectionExcept(inner) \/ thrown = "none"
        rollbacks == (IF TransactionExcept(thrown) THEN 1 ELSE 0)
                     + (IF ConnectionExcept(inner) THEN 1 ELSE 0)
                     + (IF ~ended /\ ConnStatus # "idle" THEN 1 ELSE 0)
    IN
    /\ scope[c] = "transaction"
    /\ tx.open
    /\ raised \in BodyEnds
    /\ fault => raised = "none"
    /\ db' = IF thrown = "none" THEN AfterCommit ELSE AfterRollback
    /\ tx' = NoTx
    /\ pool' = putconn(pool, conn[c])
    /\ conn' = [conn EXCEPT ![c] = 0]
    /\ scope' = [scope EXCEPT ![c] = "out"]
    /\ res' = [Result("transaction", "ctx", "Project",
                      IF outer = "none" THEN "ok" ELSE outer,
                      IF TransactionExcept(thrown) THEN thrown ELSE "", 0, 0,
                      <<raised>>, <<conn[c]>>, 0)
                 EXCEPT !.commits = tx.commits + (IF raised = "none" THEN 1 ELSE 0),
                        !.rollbacks = rollbacks,
                        !.touched = Pending]
    /\ UNCHANGED <<seq, now, handler, call>>

ScopeCaller == 1
OtherCallers == {2}

NextScope ==
    \/ Create("pool", "Project", [parent |-> 0, ok |-> TRUE, tag |-> 0], FALSE,
              Issued < MaxScoped)
    \/ ScopeEnter(ScopeCaller)
    \/ \E kind \in {"Project", "TextSource"}, p \in 0..2, ok, fault \in BOOLEAN :
          Create("ctx", kind, [parent |-> p, ok |-> ok, tag |-> 0], fault,
                 Issued < MaxScoped)
    \/ \E id \in 1..MaxScoped : Get("ctx", "Project", id)
    \/ \E raised \in BodyEnds, fault \in BOOLEAN : ScopeLeave(ScopeCaller, raised, fault)
    \/ \E c \in OtherCallers : GetConnection(c, "connection", FALSE)
    \/ \E c \in OtherCallers : Leave(c, "ok")
    \/ \E c \in OtherCallers : Finally(c)

SpecScope == Init /\ [][NextScope]_vars

(***************************************************************************)
(* Pool-bound calls of racing callers.  update() reads the row on one      *)
(* connection (get_by_id through execute_query), returns it to the pool,   *)
(* and runs its UPDATE on another; the row may change in between.          *)
(***************************************************************************)

\* The caller's frame once the call is over.
Returned(frame, status) == [frame EXCEPT !.op = "returned", !.status = status]

\* update(id, update_data) up to its UPDATE statement: get_by_id, the
\* setattr loop, validate().
UpdateRead(c, kind, id, patch) ==
    LET found == GetById(db, kind, id)
        frame == [op |-> "update", of |-> "update", kind |-> kind, id |-> id,
                  patch |-> patch, status |-> "", read |-> found,
                  entity |-> {Merged(kind, old, patch) : old \in found}]
        status == IF found = {} THEN "NotFoundError"
                  ELSE IF ~patch.ok THEN "ValidationError" ELSE "ok"
    IN
    /\ call[c] = NoCall
    /\ call' = [call EXCEPT ![c] = IF status = "ok" THEN frame
                                   ELSE Returned(frame, status)]
    /\ res' = Result("update", "pool", kind, status,
                     IF found = {} THEN kind ELSE "", IF found = {} THEN id ELSE 0,
                     1, <<patch>>, <<>>, id)
    /\ UNCHANGED <<db, seq, tx, now, pool, scope, conn, handler>>

\* The rest of update(): "UPDATE ... SET <update fields>, updated_at =
\* CURRENT_TIMESTAMP WHERE id = %(id)s RETURNING updated_at" with the values
\* of the entity built from the earlier read, then conn.commit().  fault:
\* the statement raises.  A row that is gone by now makes fetchone() return
\* None and result['updated_at'] raise, which leaves as DatabaseError too.
UpdateWrite(c, fault) ==
    LET frame == call[c]
        current == GetById(db, frame.kind, frame.id)
        failed == fault \/ current = {}
        rows == {Updated(frame.kind, cur, entity, now) :
                    cur \in current, entity \in frame.entity}
    IN
    /\ frame.op = "update"
    /\ db' = IF failed THEN db
             ELSE Overlay(db, [EmptyStore EXCEPT ![frame.kind] = rows], NoIds)
    /\ call' = [call EXCEPT ![c] =
                   Returned(frame, IF failed THEN "DatabaseError" ELSE "ok")]
    /\ res' = Result("update", "pool", frame.kind,
                     IF failed THEN "DatabaseError" ELSE "ok", "", 0, 2,
                     <<frame.patch>>,
                     IF failed THEN <<>>
                     ELSE <<[(CHOOSE e \in frame.entity : TRUE)
                                EXCEPT !.updated_at = now]>>,
                     frame.id)
    /\ UNCHANGED <<seq, tx, now, pool, scope, conn, handler>>

(***************************************************************************)
(* SpecRace: callers updating one stored link at the same time, one        *)
(* changing its content, the other its is_active flag.                     *)
(***************************************************************************)

Racers == 1..MaxRacers

RacePatches ==
    {[keys |-> keys, ok |-> ok,
      to |-> [id |-> 0, parent |-> 0, tag |-> 1, is_active |-> FALSE,
              created_at |-> 0]] :
        keys \in {{"tag"}, {"is_active"}}, ok \in BOOLEAN}

NextRace ==
    \/ \E kind \in Chain :
          /\ seq[kind] = 0
          /\ Create("pool", kind,
                    [parent |-> IF kind = "Project" THEN 0 ELSE 1, ok |-> TRUE,
                     tag |-> 0],
                    FALSE, TRUE)
    \/ \E c \in Racers, id \in 1..2, patch \in RacePatches :
          UpdateRead(c, "Link", id, patch)
    \/ \E c \in Racers, fault \in BOOLEAN : UpdateWrite(c, fault)
    \/ Tick

SpecRace == Init /\ [][NextRace]_vars

(***************************************************************************)
(* Pool-bound create() and bulk_create() of racing callers.  The parent    *)
(* lookup runs on one connection and the INSERT on another; the schema's   *)
(* "REFERENCES <parent>(id)" is checked by the INSERT itself.              *)
(***************************************************************************)

\* "<parent>_id INTEGER NOT NULL REFERENCES <parent table>(id)": the row's
\* parent is there when the INSERT runs.
ForeignKeyUnchecked(store, kind, p) == TRUE
ForeignKeyHolds(store, kind, p) ==
    kind \in ChildKinds => p \in Ids(store[ParentKind(kind)])

\* create(data) and bulk_create(list) up to the INSERT: validate() of every
\* item, then the parent lookup.  A create is a batch of one.
InsertCheck(c, of, kind, batch) ==
    LET status == IF InvalidItems(kind, batch) # {} THEN "ValidationError"
                  ELSE IF MissingParents(db, kind, batch) # {} THEN "NotFoundError"
                  ELSE "ok"
        frame == [op |-> "insert", of |-> of, kind |-> kind, batch |-> batch,
                  status |-> ""]
    IN
    /\ call[c].op \in {"none", "returned"}
    /\ batch # <<>>
    /\ of = "create" => Len(batch) = 1
    /\ call' = [call EXCEPT ![c] = IF status = "ok" THEN frame
                                   ELSE Returned(frame, status)]
    /\ res' = Result(of, "pool", kind, status,
                     IF status = "NotFoundError" THEN ParentKind(kind) ELSE "",
                     IF status = "NotFoundError"
                     THEN batch[Least(MissingParents(db, kind, batch))].parent
                     ELSE 0,
                     IF status = "ValidationError" THEN 0 ELSE 1, batch, <<>>, 0)
    /\ UNCHANGED <<db, seq, tx, now, pool, scope, conn, handler>>

\* The INSERT and conn.commit().  The statement raises, and stores nothing,
\* when the driver fails (fault) or a row's parent is gone; the sequence
\* values it drew are spent either way.
InsertRows(c, fault) ==
    LET frame == call[c]
        kind == frame.kind
        n == Len(frame.batch)
        rows == {NewRow(seq[kind] + i, frame.batch[i], now) : i \in 1..n}
        failed == fault \/ \E i \in 1..n :
                              ~ForeignKeyHolds(db, kind, frame.batch[i].parent)
    IN
    /\ frame.op = "insert"
    /\ seq' = [seq EXCEPT ![kind] = @ + n]
    /\ db' = IF failed THEN db ELSE [db EXCEPT ![kind] = @ \cup rows]
    /\ call' = [call EXCEPT ![c] =
                   Returned(frame, IF failed THEN "DatabaseError" ELSE "ok")]
    /\ res' = Result(frame.of, "pool", kind,
                     IF failed THEN "DatabaseError" ELSE "ok", "", 0, 2,
                     frame.batch, <<>>, IF failed THEN 0 ELSE seq[kind] + 1)
    /\ UNCHANGED <<tx, now, pool, scope, conn, handler>>

(***************************************************************************)
(* SpecOrphan: callers creating text sources and links, singly and in      *)
(* bulk, while projects and text sources are deleted.                      *)
(***************************************************************************)

OrphanItems == {[parent |-> p, ok |-> TRUE, tag |-> 0] : p \in 1..2}

\* Two callers are enough for a race: one inserts, the other inserts too.
OrphanCallers == {1, 2}

NextOrphan ==
    \/ \E kind \in {"Project", "TextSource"} :
          Create("pool", kind,
                 [parent |-> IF kind = "Project" THEN 0 ELSE 1, ok |-> TRUE,
                  tag |-> 0],
                 FALSE, seq[kind] = 0)
    \/ \E c \in OrphanCallers, kind \in {"TextSource", "Link"}, d \in OrphanItems :
          /\ seq[kind] < MaxOrphans
          /\ InsertCheck(c, "create", kind, <<d>>)
    \/ \E c \in OrphanCallers, kind \in {"TextSource", "Link"}, d \in OrphanItems :
          /\ seq[kind] + 1 < MaxOrphans
          /\ InsertCheck(c, "bulk_create", kind,
                         <<[parent |-> 1, ok |-> TRUE, tag |-> 0], d>>)
    \/ \E c \in OrphanCallers : InsertRows(c, FALSE)
    \/ \E kind \in {"Project", "TextSource"}, id \in 1..2 :
          Delete("pool", kind, id, FALSE)

SpecOrphan == Init /\ [][NextOrphan]_vars

(***************************************************************************)
(* create() whose parent lookup raises.  The lookup is issued before the   *)
(* method's try block, so its failure leaves as _execute_query raised it.  *)
(***************************************************************************)

\* _execute_query(): a context repository runs the SELECT on its connection
\* with no handler around it; a pool-bound one goes through execute_query(),
\* where get_connection() answers psycopg2.Error.
QueryRaises(repo) ==
    IF repo = "ctx" THEN "psycopg2.Error" ELSE "DatabaseConnectionError"

\* create(data) with valid data whose "SELECT id FROM <parent table>" raises:
\* the server or the connection fails, or the scope's transaction is
\* already aborted by an earlier failed statement.
CreateLookupRaises(repo, kind, d) ==
    /\ IF repo = "ctx" THEN tx.open ELSE ~tx.open
    /\ kind \in ChildKinds
    /\ Valid(kind, d)
    /\ res' = Result("create", repo, kind, QueryRaises(repo), "", 0, 1,
                     <<d>>, <<>>, 0)
    /\ StatementFailed(repo)
    /\ UNCHANGED <<seq, now, pool, scope, conn, handler, call>>

(***************************************************************************)
(* SpecCreate: create() on every repository, pool-bound and in a scope,    *)
(* with failures at the lookup and at the INSERT.                          *)
(***************************************************************************)

NextCreate ==
    \/ \E repo \in Repos, kind \in Kinds, d \in Items, fault \in BOOLEAN :
          Create(repo, kind, d, fault, Issued < MaxCreated)
    \/ \E repo \in Repos, kind \in ChildKinds, d \in Items :
          CreateLookupRaises(repo, kind, d)
    \/ Scopes

SpecCreate == Init /\ [][NextCreate]_vars

(***************************************************************************)
(* A pool-bound query whose statement raises after its connection was      *)
(* acquired.                                                               *)
(***************************************************************************)

QueryOps == {"get_by_id", "list"}

\* get_by_id(id) / list() through execute_query(): "with get_connection()
\* as conn" hands out a connection, cursor.execute raises psycopg2.Error
\* inside the with block, and get_connection() rolls back, raises in its
\* except clause and returns the connection in "finally".
QueryFails(op, kind, id) ==
    /\ ~tx.open
    /\ pool # NoPool /\ ~Exhausted(pool)
    /\ op = "list" => id = 0
    /\ pool' = putconn(getconn(pool), Taken(pool))
    /\ res' = [Result(op, "pool", kind, Raised("connection", "psycopg2.Error"),
                      "", 0, 1, <<>>, <<>>, id)
                 EXCEPT !.rollbacks = 1]
    /\ UNCHANGED <<db, seq, tx, now, scope, conn, handler, call>>

(***************************************************************************)
(* SpecQuery: pool-bound reads, failing and not, next to callers holding   *)
(* connections.                                                            *)
(***************************************************************************)

NextQuery ==
    \/ \E kind \in Chain, d \in Items :
          Create("pool", kind, d, FALSE, Issued < MaxQueried)
    \/ \E kind \in Chain, id \in ArgIds : Get("pool", kind, id)
    \/ \E op \in QueryOps, kind \in Chain, id \in 0..MaxId :
          QueryFails(op, kind, id)
    \/ \E c \in LifeCallers, fault \in BOOLEAN :
          GetConnection(c, "connection", fault)
    \/ \E c \in LifeCallers, outcome \in Outcomes : Leave(c, outcome)
    \/ \E c \in LifeCallers : Finally(c)

SpecQuery == Init /\ [][NextQuery]_vars

(***************************************************************************)
(* Pools the handler no longer refers to.  _create_connection_pool()       *)
(* assigns the new pool to self._pool whatever was there; close() closes   *)
(* the pool self._pool refers to at that time.                             *)
(***************************************************************************)

\* The pools the handler made, less the current one, those close() closed
\* and those the interpreter has finalized: pools with open connections that
\* nothing in the handler refers to.
Dropped ==
    handler.pools - handler.closes - handler.finalized
        - (IF pool # NoPool THEN 1 ELSE 0)

\* The interpreter finalizes an unreferenced pool, closing its connections.
\* When that happens is up to the interpreter, not to the handler.
Finalize ==
    /\ Dropped > 0
    /\ handler' = [handler EXCEPT !.finalized = @ + 1]
    /\ UNCHANGED <<db, seq, tx, res, now, pool, scope, conn, call>>

\* "with DatabaseHandler(config) as db": __enter__ calls initialize() unless
\* the handler is initialized already.
Enter(fault) ==
    IF handler.initialized
    THEN /\ fault = "none"
         /\ res' = Result("__enter__", "pool", "Project", "ok", "", 0, 0,
                          <<>>, <<>>, 0)
         /\ UNCHANGED <<db, seq, tx, now, pool, scope, conn, handler, call>>
    ELSE Initialize(fault)

\* __exit__: "self.close()".
Exit == Close

(***************************************************************************)
(* SpecReopen: initialize(), close() and the context-manager protocol in   *)
(* any order on one handler, one caller using connections in between.      *)
(***************************************************************************)

InitFaults == {"none", "pool", "test"}

NextReopen ==
    \/ \E fault \in InitFaults : Initialize(fault)
    \/ Close
    \/ \E fault \in InitFaults : Enter(fault)
    \/ Exit
    \/ Finalize
    \/ \E kind \in Kinds : Repository(kind)
    \/ \E kind \in {"connection", "transaction"}, fault \in BOOLEAN :
          GetConnection(ScopeCaller, kind, fault)
    \/ \E outcome \in Outcomes : Leave(ScopeCaller, outcome)
    \/ Finally(ScopeCaller)

SpecReopen == InitLife /\ [][NextReopen]_vars

(***************************************************************************)
(* close() while callers are inside get_connection() or transaction().     *)
(***************************************************************************)

\* close() with connections checked out: closeall() closes the idle and the
\* used connections alike, then "self._pool = None".  The callers inside a
\* scope keep their connection objects.
CloseHeld ==
    /\ ~Quiet
    /\ pool # NoPool
    /\ pool' = Closed(pool)
    /\ handler' = [handler EXCEPT !.initialized = FALSE, !.closes = @ + 1]
    /\ res' = Result("close", "pool", "Project", "ok", "", 0, 0, <<>>, <<>>, 0)
    /\ UNCHANGED <<db, seq, tx, now, scope, conn, call>>

\* "finally: if connection: self._pool.putconn(connection)" once close() has
\* set self._pool to None: the attribute lookup on None raises, in place of
\* whatever the scope was raising or returning.
PutconnOnNone == "AttributeError"
FinallyClosed(c) ==
    /\ scope[c] = "finally"
    /\ pool = NoPool
    /\ res' = Result("finally", "pool", "Project", PutconnOnNone, "", 0, 0,
                     <<>>, <<conn[c]>>, 0)
    /\ conn' = [conn EXCEPT ![c] = 0]
    /\ scope' = [scope EXCEPT ![c] = "out"]
    /\ UNCHANGED <<db, seq, tx, now, pool, handler, call>>

(***************************************************************************)
(* SpecHeld: callers in scopes of an initialized handler that may be       *)
(* closed under them.                                                      *)
(***************************************************************************)

NextHeld ==
    \/ \E c \in LifeCallers, kind \in {"connection", "transaction"}, fault \in BOOLEAN :
          GetConnection(c, kind, fault)
    \/ \E c \in LifeCallers, outcome \in Outcomes : Leave(c, outcome)
    \/ \E c \in LifeCallers : pool # NoPool /\ Finally(c)
    \/ \E c \in LifeCallers : FinallyClosed(c)
    \/ CloseHeld
    \/ Close

SpecHeld == InitPool /\ [][NextHeld]_vars

(***************************************************************************)
(* A TransactionContext that outlives its scope.  The context and its six  *)
(* repositories hold the connection object itself; leaving the scope       *)
(* returns the connection to the pool and changes nothing in the context.  *)
(***************************************************************************)

\* The body of the scope stores the context where it outlives the block
\* ("saved = ctx"): the caller keeps TransactionContext.connection.
Keep(c) ==
    /\ scope[c] = "transaction"
    /\ call[c] = NoCall
    /\ call' = [call EXCEPT ![c] = [op |-> "context", connection |-> conn[c]]]
    /\ UNCHANGED <<db, seq, tx, res, now, pool, scope, conn, handler>>

\* A connection the pool still has, idle or handed out, is open; putconn()
\* closed the others.
IsOpen(p, id) == id \in p.idle \cup p.used

\* ctx.<repository>.get_by_id(id) after the scope has exited:
\* _execute_query() finds self.connection set and runs the SELECT on it.
\* The statement runs when the connection is open, whoever has it now; on a
\* closed connection cursor() raises.
StaleGet(c, kind, id) ==
    LET found == GetById(db, kind, id)
        open == IsOpen(pool, call[c].connection)
    IN
    /\ call[c].op = "context"
    /\ scope[c] = "out"
    /\ res' = IF ~open
              THEN Result("get_by_id", "ctx", kind, "psycopg2.Error", "", 0, 0,
                          <<>>, <<>>, id)
              ELSE IF found = {}
              THEN Result("get_by_id", "ctx", kind, "NotFoundError", kind, id, 1,
                          <<>>, <<>>, id)
              ELSE Result("get_by_id", "ctx", kind, "ok", "", 0, 1, <<>>,
                          <<CHOOSE r \in found : TRUE>>, id)
    /\ UNCHANGED <<db, seq, tx, now, pool, scope, conn, handler, call>>

(***************************************************************************)
(* SpecStale: a caller that keeps its context past the scope, next to      *)
(* another caller of the same pool.                                        *)
(***************************************************************************)

NextStale ==
    \/ Create("pool", "Project", [parent |-> 0, ok |-> TRUE, tag |-> 0], FALSE,
              Issued < MaxStale)
    \/ ScopeEnter(ScopeCaller)
    \/ Keep(ScopeCaller)
    \/ \E id \in 1..MaxStale : Get("ctx", "Project", id)
    \/ \E raised \in BodyEnds, fault \in BOOLEAN : ScopeLeave(ScopeCaller, raised, fault)
    \/ \E id \in 1..MaxStale : StaleGet(ScopeCaller, "Project", id)
    \/ \E c \in OtherCallers : GetConnection(c, "connection", FALSE)
    \/ \E c \in OtherCallers : Leave(c, "ok")
    \/ \E c \in OtherCallers : Finally(c)

SpecStale == Init /\ [][NextStale]_vars

(***************************************************************************)
(* Several transaction() scopes open at once, side by side or one inside   *)
(* the block of another.  Every transaction() goes through                 *)
(* get_connection(), so every scope has the connection getconn() gave it   *)
(* and that connection's own transaction.                                  *)
(***************************************************************************)

NestCallers == {1, 2}

\* The scopes that are open.
OpenScopes == {c \in NestCallers : call[c].op = "scope"}

\* conn.commit() of scope c: the rows that become committed.  A handler
\* with one connection for all scopes would commit every open scope's rows.
CommitsShared(c) == UNION {call[d].put : d \in OpenScopes}
Commits(c) == call[c].put

\* "with db.transaction() as ctx:" by caller c.  inside: the scope in whose
\* block this one is opened, 0 for a scope of its own thread.
NestEnter(c, inside) ==
    /\ call[c] = NoCall /\ scope[c] = "out"
    /\ inside # c
    /\ inside # 0 => (inside \in OpenScopes /\ call[inside].inside # c)
    /\ UNCHANGED <<db, seq, tx, now, handler>>
    /\ IF Exhausted(pool)
       THEN /\ res' = Result("transaction_enter", "ctx", "Project",
                             "DatabaseConnectionError", "", 0, 0, <<c>>, <<>>, 0)
            /\ UNCHANGED <<pool, scope, conn, call>>
       ELSE /\ pool' = getconn(pool)
            /\ conn' = [conn EXCEPT ![c] = Taken(pool)]
            /\ scope' = [scope EXCEPT ![c] = "transaction"]
            /\ call' = [call EXCEPT ![c] = [op |-> "scope", put |-> {},
                                            inside |-> inside]]
            /\ res' = Result("transaction_enter", "ctx", "Project", "ok", "", 0,
                             0, <<c>>, <<>>, 0)

\* ctx.projects.create(data) in scope c: the INSERT runs on that scope's
\* connection and stays uncommitted.
NestCreate(c, d) ==
    /\ c \in OpenScopes
    /\ Valid("Project", d) /\ d.parent = 0
    /\ seq["Project"] < MaxNested
    /\ seq' = [seq EXCEPT !["Project"] = @ + 1]
    /\ call' = [call EXCEPT ![c].put =
                   @ \cup {NewRow(seq["Project"] + 1, d, now)}]
    /\ res' = Result("create", "ctx", "Project", "ok", "", 0, 1, <<d>>,
                     <<NewRow(seq["Project"] + 1, d, now)>>, seq["Project"] + 1)
    /\ UNCHANGED <<db, tx, now, pool, scope, conn, handler>>

\* The block of scope c ends, normally (commit) or with an exception
\* (rollback, TransactionError), and the connection goes back.  A block
\* ends after the blocks opened inside it.
NestExit(c, raised) ==
    /\ c \in OpenScopes
    /\ \A d \in OpenScopes : call[d].inside # c
    /\ db' = IF raised
             THEN db
             ELSE [db EXCEPT !["Project"] = @ \cup Commits(c)]
    /\ pool' = putconn(pool, conn[c])
    /\ conn' = [conn EXCEPT ![c] = 0]
    /\ scope' = [scope EXCEPT ![c] = "out"]
    /\ call' = [call EXCEPT ![c] = NoCall]
    /\ res' = [Result("transaction", "ctx", "Project",
                      IF raised THEN "TransactionError" ELSE "ok", "", 0, 0,
                      <<c>>, <<conn[c]>>, 0)
                 EXCEPT !.commits = IF raised THEN 0 ELSE 1,
                        !.rollbacks = IF raised THEN 1 ELSE 0,
                        !.touched = Cardinality(call[c].put)]
    /\ UNCHANGED <<seq, tx, now, handler>>

(***************************************************************************)
(* SpecNested: two scopes, each writing projects, opened and closed in     *)
(* every order the block structure allows.                                 *)
(***************************************************************************)

NextNested ==
    \/ \E c \in NestCallers, inside \in {0} \cup NestCallers : NestEnter(c, inside)
    \/ \E c \in NestCallers : NestCreate(c, [parent |-> 0, ok |-> TRUE, tag |-> 0])
    \/ \E c \in NestCallers, raised \in BOOLEAN : NestExit(c, raised)
    \/ Tick

SpecNested == Init /\ [][NextNested]_vars

(***************************************************************************)
(* Pool-bound delete() of racing callers: get_by_id on one connection,     *)
(* then the DELETE on another, whose row count decides the return value.   *)
(***************************************************************************)

\* cursor.rowcount of "DELETE FROM <table> WHERE id = %s".
RowCountOne(store, kind, id) == 1
RowCount(store, kind, id) == Cardinality(GetById(store, kind, id))

\* delete(id) up to the DELETE: "self.get_by_id(id)" raises NotFoundError
\* when there is no row.
DeleteCheck(c, kind, id) ==
    LET found == GetById(db, kind, id)
        frame == [op |-> "delete", of |-> "delete", kind |-> kind, id |-> id,
                  status |-> ""]
    IN
    /\ call[c] = NoCall
    /\ call' = [call EXCEPT ![c] = IF found = {}
                                   THEN Returned(frame, "NotFoundError")
                                   ELSE frame]
    /\ res' = Result("delete", "pool", kind,
                     IF found = {} THEN "NotFoundError" ELSE "ok",
                     IF found = {} THEN kind ELSE "",
                     IF found = {} THEN id ELSE 0, 1, <<c>>, <<>>, id)
    /\ UNCHANGED <<db, seq, tx, now, pool, scope, conn, handler>>

\* The DELETE and its commit: "return True" when affected_rows > 0, else
\* "return False".
DeleteRun(c) ==
    LET frame == call[c]
        affected_rows == RowCount(db, frame.kind, frame.id)
        gone == CascadeIds(db, frame.kind, frame.id)
    IN
    /\ frame.op = "delete"
    /\ db' = [k \in Kinds |-> {r \in db[k] : r.id \notin gone[k]}]
    /\ call' = [call EXCEPT ![c] =
                   Returned(frame, IF affected_rows > 0 THEN "True" ELSE "False")]
    /\ res' = [Result("delete", "pool", frame.kind, "ok", "", 0, 2, <<c>>,
                      <<affected_rows > 0>>, frame.id)
                 EXCEPT !.commits = 1]
    /\ UNCHANGED <<seq, tx, now, pool, scope, conn, handler>>

(***************************************************************************)
(* SpecDelete: callers deleting projects, one delete() each, and reading   *)
(* them back.                                                              *)
(***************************************************************************)

NextDelete ==
    \/ Create("pool", "Project", [parent |-> 0, ok |-> TRUE, tag |-> 0], FALSE,
              seq["Project"] < MaxDeleted)
    \/ \E c \in Racers, id \in 1..MaxDeleted : DeleteCheck(c, "Project", id)
    \/ \E c \in Racers : DeleteRun(c)
    \/ \E id \in 1..MaxDeleted : Get("pool", "Project", id)

SpecDelete == Init /\ [][NextDelete]_vars

(***************************************************************************)
(* SpecGone: pool-bound update() calls on projects that other callers      *)
(* delete, before the update's read or between its read and its UPDATE.    *)
(***************************************************************************)

NextGone ==
    \/ Create("pool", "Project", [parent |-> 0, ok |-> TRUE, tag |-> 0], FALSE,
              seq["Project"] < MaxGone)
    \/ \E c \in Racers, id \in 1..MaxGone, patch \in RacePatches :
          UpdateRead(c, "Project", id, patch)
    \/ \E c \in Racers : UpdateWrite(c, FALSE)
    \/ \E id \in 1..MaxGone : Delete("pool", "Project", id, FALSE)

SpecGone == Init /\ [][NextGone]_vars

(***************************************************************************)
(* SpecRevalidate: update() of a stored link and a stored video with one   *)
(* field replaced, by values at and about every rule of validate().  A     *)
(* stored row's tag is the record of its entity's fields.                  *)
(***************************************************************************)

Revalidated == {"Link", "Video"}

\* update_data {f: v} for a row stored as Fine(kind): ok is what validate()
\* makes of the merged entity.
FieldPatch(kind, f, v) ==
    [keys |-> {"tag"},
     ok |-> Validate(kind, [Fine(kind) EXCEPT ![f] = v]) = "ok",
     to |-> [id |-> 0, parent |-> 0, tag |-> [Fine(kind) EXCEPT ![f] = v],
             is_active |-> TRUE, created_at |-> 0]]

\* update_data {'text_source_id': 0}: the key is skipped by the setattr loop.
ParentPatch ==
    [keys |-> {"parent"}, ok |-> TRUE,
     to |-> [id |-> 0, parent |-> 0, tag |-> 0, is_active |-> TRUE,
             created_at |-> 0]]

\* The values an update puts into field f: the empty string, a string over
\* the field's limit, a negative number, a URL that does not parse; for the
\* title also a string within the limit.
Replacements(kind, f) ==
    IF f \in {"file_size", "duration"} THEN {{}, {0 - 1}}
    ELSE IF f = "url_parses" THEN {FALSE}
    ELSE {Empty}
            \cup {Str(Limits(kind)[f] + n, FALSE) : n \in 1..MaxExcess}
            \cup (IF f = "title" THEN {Word} ELSE {})

NextRevalidate ==
    \/ \E kind \in {"Project", "TextSource"} :
          /\ seq[kind] = 0
          /\ Create("pool", kind,
                    [parent |-> IF kind = "Project" THEN 0 ELSE 1, ok |-> TRUE,
                     tag |-> 0],
                    FALSE, TRUE)
    \/ \E kind \in Revalidated :
          /\ seq[kind] = 0
          /\ Create("pool", kind, [parent |-> 1, ok |-> TRUE, tag |-> Fine(kind)],
                    FALSE, TRUE)
    \/ \E repo \in Repos, kind \in Revalidated :
          \E f \in DOMAIN Fine(kind) \ {"parent"} : \E v \in Replacements(kind, f) :
             Update(repo, kind, 1, FieldPatch(kind, f, v), FALSE, Callable(repo))
    \/ \E repo \in Repos, kind \in Revalidated :
          Update(repo, kind, 1, ParentPatch, FALSE, Callable(repo))
    \/ Scopes

SpecRevalidate == Init /\ [][NextRevalidate]_vars

(***************************************************************************)
(* Link statistics.  In this part the is_active of a link is written as    *)
(* the column holds it: "true", "false" or "null".  The column is          *)
(* "BOOLEAN DEFAULT TRUE" without NOT NULL, Link.validate() does not look  *)
(* at is_active, and create() and update() pass the attribute as given,    *)
(* None included.                                                          *)
(***************************************************************************)

ActiveValues == {"true", "false", "null"}

\* LinkRepository.create(data) and bulk_create(list), pool-bound, with data
\* that is valid and names an existing text source: one INSERT, committed.
LinksCreate(of, batch) ==
    LET n == Len(batch)
        rows == {[NewRow(seq["Link"] + i, batch[i], now)
                     EXCEPT !.is_active = batch[i].is_active] : i \in 1..n}
    IN
    /\ ~tx.open
    /\ n >= 1
    /\ of = "create" => n = 1
    /\ InvalidItems("Link", batch) = {}
    /\ MissingParents(db, "Link", batch) = {}
    /\ seq' = [seq EXCEPT !["Link"] = @ + n]
    /\ db' = [db EXCEPT !["Link"] = @ \cup rows]
    /\ res' = [Result(of, "pool", "Link", "ok", "", 0, 2, batch, <<>>,
                      seq["Link"] + 1)
                 EXCEPT !.commits = 1]
    /\ UNCHANGED <<tx, now, pool, scope, conn, handler, call>>

\* bulk_deactivate_by_domain(domain): "UPDATE links SET is_active = false,
\* updated_at = CURRENT_TIMESTAMP WHERE url LIKE %s AND is_active = true".
\* A link's tag stands for the domain of its url.
BulkDeactivateByDomain(domain) ==
    LET hit == {r \in db["Link"] : r.tag = domain /\ r.is_active = "true"} IN
    /\ ~tx.open
    /\ db' = [db EXCEPT !["Link"] =
                (@ \ hit) \cup {[r EXCEPT !.is_active = "false",
                                          !.updated_at = now] : r \in hit}]
    /\ res' = [Result("bulk_deactivate_by_domain", "pool", "Link", "ok", "", 0,
                      1, <<domain>>, <<Cardinality(hit)>>, 0)
                 EXCEPT !.commits = 1]
    /\ UNCHANGED <<seq, tx, now, pool, scope, conn, handler, call>>

\* "COUNT(*) FILTER (WHERE is_active = true)": a comparison with NULL is
\* not true, so a row whose is_active is NULL is in neither filtered count.
CountWhere(rows, value) == Cardinality({r \in rows : r.is_active = value})

\* get_statistics(text_source_id): "if text_source_id:" picks the query
\* with "WHERE text_source_id = %s"; None and 0 give the global one.
GetStatistics(text_source_id) ==
    LET rows == IF text_source_id # 0
                THEN {r \in db["Link"] : r.parent = text_source_id}
                ELSE db["Link"]
    IN
    /\ ~tx.open
    /\ res' = Result("get_statistics", "pool", "Link", "ok", "", 0, 1,
                     <<text_source_id>>,
                     <<[total_links |-> Cardinality(rows),
                        active_links |-> CountWhere(rows, "true"),
                        inactive_links |-> CountWhere(rows, "false")]>>,
                     text_source_id)
    /\ UNCHANGED <<db, seq, tx, now, pool, scope, conn, handler, call>>

(***************************************************************************)
(* SpecStats: links of two text sources created, updated, activated,       *)
(* deactivated and deleted, with statistics read in between.               *)
(***************************************************************************)

LinkItems ==
    {[parent |-> p, ok |-> TRUE, tag |-> 0, is_active |-> v] :
        p \in 1..2, v \in ActiveValues}

ActivePatch(v) ==
    [keys |-> {"is_active"}, ok |-> TRUE,
     to |-> [id |-> 0, parent |-> 0, tag |-> 0, is_active |-> v,
             created_at |-> 0]]

NextStats ==
    \/ \E kind \in {"Project", "TextSource"} :
          Create("pool", kind,
                 [parent |-> IF kind = "Project" THEN 0 ELSE 1, ok |-> TRUE,
                  tag |-> 0],
                 FALSE, seq[kind] < (IF kind = "Project" THEN 1 ELSE 2))
    \/ \E d \in LinkItems :
          seq["Link"] < MaxLinks /\ LinksCreate("create", <<d>>)
    \/ \E d \in LinkItems :
          /\ seq["Link"] + 1 < MaxLinks
          /\ LinksCreate("bulk_create",
                         <<d, [parent |-> 1, ok |-> TRUE, tag |-> 0,
                               is_active |-> "true"]>>)
    \/ \E id \in 1..MaxLinks, v \in ActiveValues :
          Update("pool", "Link", id, ActivePatch(v), FALSE, ~tx.open)
    \/ BulkDeactivateByDomain(0)
    \/ \E id \in 1..MaxLinks : Delete("pool", "Link", id, FALSE)
    \/ \E text_source_id \in 0..2 : GetStatistics(text_source_id)

SpecStats == Init /\ [][NextStats]_vars

(***************************************************************************)
(* Video.get_duration_formatted().  A text is a sequence of one-character  *)
(* strings; an optional duration is the empty set (None) or {d}.           *)
(***************************************************************************)

DigitChars == <<"0", "1", "2", "3", "4", "5", "6", "7", "8", "9">>

\* str of a non-negative int: its decimal digits, no padding.
RECURSIVE Decimal(_)
Decimal(n) ==
    IF n < 10 THEN <<DigitChars[n + 1]>>
    ELSE Decimal(n \div 10) \o <<DigitChars[(n % 10) + 1]>>

\* The format spec ":02d": zero-padded to a width of at least two.
TwoDigits(n) ==
    IF Len(Decimal(n)) < 2 THEN <<"0">> \o Decimal(n) ELSE Decimal(n)

MinutesWhole(duration) == duration \div 60

\* "minutes = (self.duration % 3600) // 60"
Minutes(duration) == (duration % 3600) \div 60

\* None when duration is None, else f"{hours:02d}:{minutes:02d}:{seconds:02d}".
\* The result is a sequence: empty for None, else holding the text.
GetDurationFormatted(duration) ==
    IF duration = {} THEN <<>>
    ELSE LET d == CHOOSE x \in duration : TRUE
             hours == d \div 3600
             seconds == d % 60
         IN <<TwoDigits(hours) \o <<":">> \o TwoDigits(Minutes(d))
                \o <<":">> \o TwoDigits(seconds)>>

\* The call on a video: the result is recorded next to the object's duration.
FormatDuration ==
    /\ res.op = "video"
    /\ res' = [res EXCEPT !.op = "get_duration_formatted",
                          !.out = GetDurationFormatted(res.input[1])]
    /\ UNCHANGED <<db, seq, tx, now, pool, scope, conn, handler, call>>

(***************************************************************************)
(* SpecDuration: the method called on a video of any duration up to        *)
(* MaxHours hours (seconds sampled), and on a video without duration.      *)
(***************************************************************************)

SecondSamples == {0, 1, 9, 10, 59}

Durations ==
    {{}} \cup {{3600 * h + 60 * m + s} :
                  h \in 0..MaxHours, m \in 0..59, s \in SecondSamples}

\* A Video object; validate() admits every duration >= 0 and None.
InitDuration ==
    /\ db = EmptyStore
    /\ seq = [k \in Kinds |-> 0]
    /\ tx = NoTx
    /\ \E duration \in Durations :
          res = Result("video", "none", "Video", "ok", "", 0, 0,
                       <<duration>>, <<>>, 0)
    /\ now = 0
    /\ pool = ThreadedConnectionPool(MinConn, PoolSize + MaxOverflow)
    /\ scope = [c \in Callers |-> "out"]
    /\ conn = [c \in Callers |-> 0]
    /\ handler = [initialized |-> TRUE, pools |-> 1, closes |-> 0, finalized |-> 0]
    /\ call = NoCalls

NextDuration == FormatDuration

SpecDuration == InitDuration /\ [][NextDuration]_vars

(***************************************************************************)
(* list(limit, offset): "SELECT * FROM projects ORDER BY created_at DESC   *)
(* LIMIT %s OFFSET %s".  created_at is the only sort key, so the order     *)
(* among rows of one created_at is the server's choice, made anew by each  *)
(* query.                                                                  *)
(***************************************************************************)

\* The orders "ORDER BY created_at DESC" admits for a set of rows: the
\* sequences holding each row once, created_at never increasing.
Orders(rows) ==
    LET n == Cardinality(rows) IN
    {s \in [1..n -> rows] :
        /\ \A i, j \in 1..n : i # j => s[i] # s[j]
        /\ \A i, j \in 1..n : i < j => s[i].created_at >= s[j].created_at}

\* "LIMIT limit OFFSET offset" of an ordered result.
LimitOffset(s, limit, offset) ==
    SubSeq(s, offset + 1, IF offset + limit < Len(s) THEN offset + limit ELSE Len(s))

\* One caller walks the pages list(limit, 0), list(limit, limit), ... of a
\* repository; its frame keeps the limit, the next offset and the ids of
\* the rows returned so far.
ListPage(c, kind, limit) ==
    LET first == call[c].op = "none"
        lim == IF first THEN limit ELSE call[c].limit
        offset == IF first THEN 0 ELSE call[c].offset
        seen == IF first THEN <<>> ELSE call[c].seen
    IN
    /\ ~tx.open
    /\ first \/ (call[c].op = "list" /\ call[c].kind = kind /\ call[c].limit = limit
                   /\ offset < Cardinality(db[kind]))
    /\ \E s \in Orders(db[kind]) :
          LET page == LimitOffset(s, lim, offset) IN
          /\ res' = [Result("list", "pool", kind, "ok", "", 0, 1,
                            <<lim, offset>>, page, 0)
                       EXCEPT !.commits = 0]
          /\ call' = [call EXCEPT ![c] =
                        [op |-> "list", kind |-> kind, limit |-> lim,
                         offset |-> offset + lim,
                         seen |-> seen \o [i \in 1..Len(page) |-> page[i].id]]]
    /\ UNCHANGED <<db, seq, tx, now, pool, scope, conn, handler>>

(***************************************************************************)
(* SpecList: projects inserted by create and by bulk_create, each          *)
(* statement at a time of its own, and then paged through while the table  *)
(* stays as it is.                                                         *)
(***************************************************************************)

ListCaller == Least(Callers)

\* No row carries the present time yet: rows share a created_at only when
\* one statement inserted them.
FreshTime == \A r \in db["Project"] : r.created_at < now

NextList ==
    \/ \E tag \in 0..1 :
          /\ call[ListCaller].op = "none" /\ FreshTime
          /\ Create("pool", "Project", [parent |-> 0, ok |-> TRUE, tag |-> tag],
                    FALSE, seq["Project"] < MaxListed)
    \/ /\ call[ListCaller].op = "none" /\ FreshTime
       /\ BulkCreate("pool", "Project", PageBatch(2, 0), FALSE,
                     seq["Project"] + 2 <= MaxListed)
    \/ call[ListCaller].op = "none" /\ Tick
    \/ \E limit \in 1..MaxLimit : ListPage(ListCaller, "Project", limit)

SpecList == Init /\ [][NextList]_vars

(***************************************************************************)
(* Properties.                                                             *)
(***************************************************************************)

\* What the repository reads after the step.
ViewAfter(repo) == IF repo = "ctx" THEN TxView' ELSE db'

CallOps == {"create", "bulk_create", "delete", "deactivate", "activate",
            "get_by_id"}

\* C1 (Spec): a child create() whose data passes validate() and whose parent
\* id has no row visible to the repository fails with NotFoundError carrying
\* the parent kind and that id, and stores nothing.
C1_MissingParent ==
    [][(/\ res'.op = "create"
        /\ res'.kind \in ChildKinds
        /\ Valid(res'.kind, res'.input[1])
        /\ res'.input[1].parent \notin Ids(View(res'.repo)[ParentKind(res'.kind)]))
       => (/\ res'.status = "NotFoundError"
           /\ res'.err_kind = ParentKind(res'.kind)
           /\ res'.err_id = res'.input[1].parent
           /\ db' = db /\ tx'.put = tx.put /\ tx'.del = tx.del /\ seq' = seq)]_vars

\* A leaf create named a text source that does not exist while another does.
C1_Witness ==
    /\ res.op = "create" /\ res.kind \in LeafKinds
    /\ res.status = "NotFoundError" /\ res.err_kind = "TextSource"
    /\ View(res.repo)["TextSource"] # {}
    /\ res.err_id \notin Ids(View(res.repo)["TextSource"])

\* C2 (SpecChain): when a transaction() scope ends with an exception, the
\* committed rows are exactly those committed when the scope was entered:
\* nothing the context's repositories created, updated or deleted shows.
C2_RollbackHidesScope ==
    [][(tx.open /\ res'.op \in {"transaction_raise", "transaction_exit"}
            /\ res'.status = "TransactionError")
       => (db' = tx.entry /\ ~tx'.open)]_vars

\* A scope that had written rows ended with an exception.
C2_Witness ==
    /\ res.op = "transaction_raise" /\ res.touched >= 2
    /\ seq["Project"] > 0 /\ db["Project"] = {}

\* C6 (SpecChain): after a successful deactivate(id) the Link is still
\* returned by get_by_id(id), with is_active false; after a successful
\* delete(id) get_by_id(id) finds nothing; deactivate and activate never
\* change which Link rows exist.
C6_SoftVersusHardDelete ==
    [][/\ (res'.op = "deactivate" /\ res'.status = "ok")
            => \E r \in GetById(ViewAfter(res'.repo), "Link", res'.id) :
                  ~r.is_active
       /\ (res'.op = "delete" /\ res'.kind = "Link" /\ res'.status = "ok")
            => GetById(ViewAfter(res'.repo), "Link", res'.id) = {}
       /\ res'.op \in {"deactivate", "activate"}
            => /\ Ids(db'["Link"]) = Ids(db["Link"])
               /\ tx.open => Ids(TxView'["Link"]) = Ids(TxView["Link"])]_vars

\* A committed Link has been deactivated and is still stored.
C6_Witness ==
    /\ res.op = "deactivate" /\ res.status = "ok" /\ res.repo = "pool"
    /\ \E r \in db["Link"] : r.id = res.id /\ ~r.is_active

\* C7 (SpecCascade): a successful delete of a Project leaves no TextSource
\* of that project and no Summary, Translation, Video or Link of any of those
\* text sources; every other row is kept as it was, and no row appears.
C7_Descendants(p) ==
    LET sources == {r.id : r \in {x \in db["TextSource"] : x.parent = p}}
    IN [k \in Kinds |->
          IF k = "Project" THEN {r \in db[k] : r.id = p}
          ELSE IF k = "TextSource" THEN {r \in db[k] : r.parent = p}
          ELSE {r \in db[k] : r.parent \in sources}]

C7_Cascade ==
    [][(res'.op = "delete" /\ res'.kind = "Project" /\ res'.status = "ok")
       => \A k \in Kinds : db'[k] = db[k] \ C7_Descendants(res'.id)[k]]_vars

\* A project went together with a text source and one of its leaf rows,
\* while another project stayed.
C7_Witness ==
    /\ res.op = "delete" /\ res.kind = "Project" /\ res.status = "ok"
    /\ res.touched >= 3
    /\ db["Project"] # {}

\* C10 (SpecChain): a call through the context never changes the committed
\* rows and never commits; while the scope is open the committed rows, which
\* are all a pool-bound read returns, are those of the scope's entry; the
\* scope commits once, on normal exit, and then exactly its write set
\* becomes visible; a scope that rolls back has not committed at all.
C10_ScopeIsolation ==
    [][/\ (res'.repo = "ctx" /\ res'.op \in CallOps)
            => (db' = db /\ res'.commits = 0 /\ tx'.commits = 0)
       /\ tx'.open => db' = tx'.entry
       /\ (res'.op = "get_by_id" /\ res'.repo = "pool" /\ tx.open)
            => \A i \in 1..Len(res'.out) : res'.out[i] \in tx.entry[res'.kind]
       /\ (tx.open /\ res'.op = "transaction_exit" /\ res'.status = "ok")
            => /\ res'.commits = 1
               /\ db' = IF tx.aborted THEN tx.entry
                        ELSE Overlay(tx.entry, tx.put, tx.del)
       /\ (tx.open /\ res'.op = "transaction_raise")
            => (res'.commits = 0 /\ db' = tx.entry)]_vars

\* A pool-bound get_by_id did not find a row the open scope has inserted.
C10_Witness ==
    /\ tx.open
    /\ res.op = "get_by_id" /\ res.repo = "pool" /\ res.status = "NotFoundError"
    /\ res.id \in Ids(tx.put[res.kind])

\* The positions of a recorded batch whose parent reference names no row of
\* the parent table the call reads.
C3_Dangling(r) ==
    {i \in 1..Len(r.input) : r.input[i].parent \notin Ids(View(r.repo)[ParentKind(r.kind)])}

C3_Outcome(r) ==
    /\ r.status = "NotFoundError"
    /\ r.err_kind = ParentKind(r.kind)
    /\ \E i \in C3_Dangling(r) :
          /\ \A j \in C3_Dangling(r) : i <= j
          /\ r.err_id = r.input[i].parent

\* C3 (as stated): bulk_create on a child repository with a batch in which at
\* least one item references a parent that does not exist inserts zero rows
\* and fails with NotFoundError naming the parent id of the first such item
\* in input order.
C3_AsStated ==
    [][(res'.op = "bulk_create" /\ res'.kind \in ChildKinds /\ C3_Dangling(res') # {})
       => (C3_Outcome(res') /\ db' = db /\ tx'.put = tx.put /\ tx'.del = tx.del /\ seq' = seq)]_vars

\* C3 (amended): bulk_create on a child repository with a batch whose items
\* all pass validate() and in which at least one item references a parent
\* that does not exist inserts zero rows and fails with NotFoundError naming
\* the parent kind and the parent id of the first such item in input order;
\* and whatever the batch, a dangling parent reference means no row is
\* written.
C3_MissingParentInBatch ==
    [][(res'.op = "bulk_create" /\ res'.kind \in ChildKinds /\ C3_Dangling(res') # {})
       => /\ db' = db /\ tx'.put = tx.put /\ tx'.del = tx.del /\ seq' = seq
          /\ InvalidItems(res'.kind, res'.input) = {} => C3_Outcome(res')]_vars

\* A batch whose first item names an existing project and whose second item
\* names a missing one was refused, the error naming the second item's parent.
C3_Witness ==
    /\ res.op = "bulk_create" /\ res.kind = "TextSource"
    /\ res.status = "NotFoundError"
    /\ Len(res.input) = 2
    /\ res.input[1].parent \in Ids(View(res.repo)["Project"])
    /\ res.err_id = res.input[2].parent
    /\ db["Project"] # {}

\* C4: bulk_create validates every item before issuing any database
\* statement: if any item of the batch, at any position, fails validate(),
\* the call fails with ValidationError, no parent-existence query and no
\* insert is executed, and no row of the batch is written.
C4_ValidateBeforeStatements ==
    [][(res'.op = "bulk_create"
        /\ \E i \in 1..Len(res'.input) : ~Valid(res'.kind, res'.input[i]))
       => (res'.status = "ValidationError" /\ res'.stmts = 0
           /\ db' = db /\ tx'.put = tx.put /\ tx'.del = tx.del /\ seq' = seq)]_vars

\* A batch whose first item is valid and insertable and whose last item
\* fails validate() was refused without a statement.
C4_Witness ==
    /\ res.op = "bulk_create" /\ res.kind = "TextSource"
    /\ res.status = "ValidationError" /\ res.stmts = 0
    /\ Len(res.input) = 2
    /\ Valid(res.kind, res.input[1])
    /\ res.input[1].parent \in Ids(View(res.repo)["Project"])
    /\ ~Valid(res.kind, res.input[2])

\* The rows a call stored in the table it wrote to, in the step that hands
\* out their ids.
C5_Inserted == ViewAfter(res'.repo)[res'.kind] \ View(res'.repo)[res'.kind]

\* C5: after a successful bulk_create of n items, for every n >= 1 including
\* n larger than the insert page size, the returned list holds the n input
\* entities in input order, every one of them has an assigned id, and the id
\* and timestamps on the i-th entity are those of the row inserted from the
\* i-th input.
C5_BulkIdentities ==
    [][(res'.op = "bulk_create" /\ res'.status = "ok" /\ Len(res'.input) >= 1
        /\ seq' # seq)
       => /\ Len(res'.out) = Len(res'.input)
          /\ \A i \in 1..Len(res'.input) :
                /\ res'.out[i].tag = res'.input[i].tag
                /\ res'.out[i].parent = res'.input[i].parent
                /\ res'.out[i].id # 0
                /\ \E row \in C5_Inserted :
                      /\ row.tag = res'.input[i].tag
                      /\ row.id = res'.out[i].id
                      /\ row.created_at = res'.out[i].created_at
                      /\ row.updated_at = res'.out[i].updated_at]_vars

\* C5 within one page: the same statement for batches of at most PAGE_SIZE
\* items.
C5_WithinOnePage ==
    [][(res'.op = "bulk_create" /\ res'.status = "ok" /\ Len(res'.input) >= 1
        /\ Len(res'.input) <= PAGE_SIZE /\ seq' # seq)
       => /\ Len(res'.out) = Len(res'.input)
          /\ \A i \in 1..Len(res'.input) :
                /\ res'.out[i].tag = res'.input[i].tag
                /\ res'.out[i].id # 0
                /\ \E row \in C5_Inserted :
                      /\ row.tag = res'.input[i].tag
                      /\ row.id = res'.out[i].id
                      /\ row.created_at = res'.out[i].created_at
                      /\ row.updated_at = res'.out[i].updated_at]_vars

\* A batch of more than PAGE_SIZE items was stored: every row is in the
\* table, the first entity carries the id of the last row, the second none.
C5_PastOnePage ==
    /\ res.op = "bulk_create" /\ res.status = "ok"
    /\ Len(res.input) = PAGE_SIZE + 1
    /\ res.out[1].id = seq[res.kind]
    /\ res.out[2].id = 0
    /\ Cardinality(View(res.repo)[res.kind]) >= PAGE_SIZE + 1

\* The callers inside a get_connection() or transaction() scope.
C8_Inside == {c \in Callers : scope[c] # "out"}

\* C8: every connection checked out by get_connection() is returned to the
\* pool when the scope exits, whether the block ends normally, with a
\* database error or with any other exception: the checked-out connections
\* are exactly those of the callers still inside a scope, so that none is
\* checked out once every operation and scope has completed.
C8_AllReturned ==
    /\ pool.used = {conn[c] : c \in C8_Inside}
    /\ \A c \in Callers : c \notin C8_Inside => conn[c] = 0
    /\ C8_Inside = {} => pool.used = {}

\* A scope whose body raised has completed after a second connection was
\* opened, and nothing is checked out.
C8_Witness ==
    /\ C8_Inside = {}
    /\ pool.used = {}
    /\ res.op = "transaction" /\ res.status = "TransactionError"
    /\ pool.idle # 1..MinConn

\* C9: under every interleaving of concurrent callers the number of
\* connections checked out at the same time never exceeds pool_size +
\* max_overflow, and no connection is held by two callers at the same time.
C9_BoundedExclusive ==
    /\ Cardinality(pool.used) <= pool.maxconn
    /\ \A c1, c2 \in C8_Inside : c1 # c2 => conn[c1] # conn[c2]
    /\ \A c \in C8_Inside : conn[c] \in pool.used /\ conn[c] \notin pool.idle

\* The pool is at its limit and one more caller was refused.
C9_Witness ==
    /\ Cardinality(pool.used) = pool.maxconn
    /\ pool.maxconn > 1
    /\ res.op = "get_connection" /\ res.status = "DatabaseConnectionError"
    /\ \E c \in Callers : scope[c] = "out"

\* C11: every successful write made through a pool-bound repository is
\* committed before the call returns (the created row is in the committed
\* store, the deleted row is gone from it, and no other committed row is
\* lost), and a pool-bound call that fails changes nothing committed: the
\* rows of earlier calls stay.
C11_AutonomousCommit ==
    [][(res'.repo = "pool" /\ res'.op \in {"create", "delete"} /\ res' # res)
       => /\ (res'.status = "ok" /\ res'.op = "create")
                => /\ res'.commits = 1
                   /\ res'.out[1] \in db'[res'.kind]
                   /\ \A k \in Kinds : db[k] \subseteq db'[k]
          /\ (res'.status = "ok" /\ res'.op = "delete")
                => /\ res'.commits = 1
                   /\ GetById(db', res'.kind, res'.id) = {}
          /\ res'.status # "ok" => db' = db]_vars

\* A pool-bound Summary create failed on its INSERT after the TextSource it
\* refers to was created by an earlier call: the TextSource is committed.
C11_Witness ==
    /\ res.op = "create" /\ res.repo = "pool" /\ res.kind = "Summary"
    /\ res.status = "DatabaseError"
    /\ ~tx.open
    /\ res.input[1].parent \in Ids(db["TextSource"])

\* C12: after close(), and before the first initialize(), the handler has no
\* pool: every repository property raises and every get_connection() or
\* transaction() fails at once, without a connection being opened or
\* checked out; after a successful initialize() the handler has a new pool,
\* the repository properties return and a connection can be acquired.
C12_ClosedFailsFast ==
    [][/\ res'.op = "close" => (pool' = NoPool /\ ~handler'.initialized)
       /\ (handler.pools = 0 /\ res'.op # "initialize")
             => (pool' = NoPool /\ ~handler'.initialized)
       /\ (pool = NoPool /\ res'.op = "repository")
             => (res'.status = "RuntimeError" /\ pool' = NoPool
                 /\ scope' = scope /\ conn' = conn)
       /\ (pool = NoPool /\ res'.op = "get_connection")
             => (res'.status = "DatabaseConnectionError" /\ pool' = NoPool
                 /\ scope' = scope /\ conn' = conn)
       /\ (res'.op = "initialize" /\ res'.status = "ok")
             => (handler'.initialized /\ pool' # NoPool /\ pool'.idle # {}
                 /\ pool'.used = {})
       /\ (handler.initialized /\ res'.op = "repository") => res'.status = "ok"
       /\ (pool # NoPool /\ pool.idle # {} /\ res'.op = "get_connection"
           /\ scope' = scope)
             => res'.status = "ok"]_vars

\* A handler that was closed and initialized again handed out a connection.
C12_Witness ==
    /\ handler.closes >= 1 /\ handler.pools >= 2 /\ handler.initialized
    /\ res.op = "get_connection" /\ res.status = "ok"
    /\ \E c \in Callers : scope[c] # "out" /\ conn[c] \in pool.used

\* A closed handler refused a connection.
C12_Refused ==
    /\ handler.closes >= 1 /\ pool = NoPool
    /\ res.op = "get_connection" /\ res.status = "DatabaseConnectionError"

\* The configuration handed to the constructor breaks one of the rules.
C13_Invalid(cfg) ==
    \/ ~cfg.host \/ ~cfg.database \/ ~cfg.username \/ ~cfg.password
    \/ cfg.port < 1 \/ cfg.port > MaxPort
    \/ cfg.pool_size <= 0
    \/ cfg.max_overflow < 0

\* C13: constructing the handler with a configuration whose host, database,
\* username or password is missing, whose port is outside [1, 65535], whose
\* pool_size <= 0 or whose max_overflow < 0 fails with ConfigurationError,
\* before any connection is attempted.
C13_ConfigurationError ==
    [][(res'.op = "construct" /\ C13_Invalid(res'.input[1]))
       => (res'.status = "ConfigurationError" /\ pool' = NoPool
           /\ handler'.pools = 0)]_vars

\* C13, error type aside: an invalid configuration is refused before any
\* connection is attempted, and a valid one is accepted.
C13_RefusedEarly ==
    [][res'.op = "construct"
       => /\ C13_Invalid(res'.input[1]) <=> res'.status # "ok"
          /\ pool' = NoPool /\ handler'.pools = 0]_vars

\* A configuration valid but for its port, one past the limit, was refused.
C13_Witness ==
    /\ res.op = "construct" /\ res.status = "ValueError"
    /\ res.err_kind = "port" /\ res.input[1].port = MaxPort + 1
    /\ pool = NoPool

\* C14: for every row, each successful mutation (update, deactivate,
\* activate), whether issued by an autonomous call or inside a transaction
\* scope and under every interleaving of callers, leaves the row's
\* updated_at not earlier than its value before that mutation.
C14_UpdatedAtMonotone ==
    [][(res'.op \in {"update", "deactivate", "activate"} /\ res'.status = "ok")
       => \A old \in GetById(View(res'.repo), res'.kind, res'.id) :
             \A new \in GetById(ViewAfter(res'.repo), res'.kind, res'.id) :
                new.updated_at >= old.updated_at]_vars

\* C14 for the committed rows: no step takes a committed row's updated_at
\* back.
C14_CommittedMonotone ==
    [][\A k \in Kinds : \A old \in db[k] : \A new \in db'[k] :
          new.id = old.id => new.updated_at >= old.updated_at]_vars

\* A scope whose transaction began before another caller's committed update
\* of the row has updated the same row.
C14_Witness ==
    /\ res.op = "update" /\ res.repo = "ctx" /\ res.status = "ok"
    /\ tx.open /\ tx.begun
    /\ \E r \in db[res.kind] :
          /\ r.id = res.id
          /\ r.updated_at > tx.start
          /\ res.out[1].updated_at = tx.start

\* C15: update(id, partial_data) changes in the stored row only the
\* updatable fields named in partial_data and updated_at: every field not
\* supplied keeps its stored value, a supplied updatable field takes the
\* supplied value, the row's id, created_at and parent reference are never
\* changed even when partial_data names them, and no other row changes.
C15_UpdateFrame ==
    [][(res'.op = "update" /\ res'.status = "ok")
       => \A old \in GetById(View(res'.repo), res'.kind, res'.id) :
             \E new \in ViewAfter(res'.repo)[res'.kind] :
                /\ new.id = old.id
                /\ new.created_at = old.created_at
                /\ new.parent = old.parent
                /\ \A f \in {"tag", "is_active"} :
                      new[f] = IF /\ f \in res'.input[1].keys
                                  /\ (f = "tag" \/ res'.kind = "Link")
                               THEN res'.input[1].to[f]
                               ELSE old[f]
                /\ ViewAfter(res'.repo)[res'.kind] \ {new}
                      = View(res'.repo)[res'.kind] \ {old}
                /\ \A k \in Kinds \ {res'.kind} :
                      ViewAfter(res'.repo)[k] = View(res'.repo)[k]]_vars

\* An update naming id, created_at and the parent reference besides an
\* updatable field went through, and the stored row took the updatable
\* field only.
C15_Witness ==
    /\ res.op = "update" /\ res.status = "ok" /\ res.kind = "TextSource"
    /\ {"tag", "parent", "id", "created_at"} \subseteq res.input[1].keys
    /\ \E r \in View(res.repo)["TextSource"] :
          /\ r.id = res.id
          /\ r.tag = res.input[1].to.tag
          /\ r.parent # res.input[1].to.parent
          /\ r.created_at # res.input[1].to.created_at

\* C16: for every concrete entity kind, two entities with assigned ids are
\* equal exactly when they are of the same concrete kind and have the same
\* id, whatever their other fields hold; entities that are equal have equal
\* hashes; an entity without an id is never equal to a different entity.
C16_IdentityEquality ==
    res.op = "eq" =>
       LET a == res.input[1]
           b == res.input[2]
           equal == res.out[1]
       IN /\ (a.id # None /\ b.id # None)
                => (equal <=> (a.kind = b.kind /\ a.id = b.id))
          /\ equal => (res.out[2] # "TypeError" /\ res.out[2] = res.out[3])
          /\ (a.id = None /\ a.ref # b.ref) => ~equal

\* Two projects with the same id and different names were compared and
\* found unequal, and hashing them raised.
C16_Witness ==
    /\ res.op = "eq"
    /\ res.input[1].kind = "Project" /\ res.input[2].kind = "Project"
    /\ res.input[1].id = 1 /\ res.input[2].id = 1
    /\ res.input[1].name # res.input[2].name
    /\ res.out[1] = FALSE /\ res.out[2] = "TypeError"

\* The entity validated is the acceptable one of its kind but for field f,
\* whose value is a non-blank string of length n.
C17_OnlyFieldAt(f, n) ==
    res.input[1] = [Fine(res.kind) EXCEPT ![f] = Str(n, FALSE)]

\* C17: for every string-length-bounded field of every entity kind
\* (Project.name 255, Project.description 10000, TextSource.source_type 50,
\* TextSource.source_url 500, Translation.language_code 10, Video.format 20,
\* Link.url 500, Link.description 1000, and the others), validate() accepts
\* a value whose length is exactly the limit and rejects a value one
\* character longer with a ValidationError whose field is that field's name.
C17_LengthLimits ==
    res.op = "validate" =>
       LET limits ==
              CASE res.kind = "Project" -> [name |-> 255, description |-> 10000]
                [] res.kind = "TextSource" ->
                      [title |-> 255, source_type |-> 50, source_url |-> 500]
                [] res.kind = "Summary" -> [title |-> 255, summary_type |-> 50]
                [] res.kind = "Translation" -> [language_code |-> 10, title |-> 255]
                [] res.kind = "Video" ->
                      [file_path |-> 500, title |-> 255, file_url |-> 500,
                       format |-> 20, thumbnail_path |-> 500]
                [] res.kind = "Link" ->
                      [url |-> 500, title |-> 255, description |-> 1000,
                       link_type |-> 50]
       IN \A f \in DOMAIN limits :
             /\ C17_OnlyFieldAt(f, limits[f]) => res.status = "ok"
             /\ C17_OnlyFieldAt(f, limits[f] + 1)
                   => (res.status = "ValidationError" /\ res.out = <<f>>)
             /\ res.input[1][f].len > limits[f] => res.status = "ValidationError"

\* A link whose url is one character past its limit was refused for its url.
C17_Witness ==
    /\ res.op = "validate" /\ res.kind = "Link"
    /\ res.input[1] = [Fine("Link") EXCEPT !.url = Str(501, FALSE)]
    /\ res.status = "ValidationError" /\ res.out = <<"url">>

\* A video whose format is exactly at its limit was accepted.
C17_AtLimit ==
    /\ res.op = "validate" /\ res.kind = "Video"
    /\ res.input[1] = [Fine("Video") EXCEPT !.format = Str(20, FALSE)]
    /\ res.status = "ok"

\* A tokens value as the claim wants it stored: a list of at least one
\* element, each a dictionary with a 'token' key and a 'pos' key whose value
\* is an integer, not negative.  Python counts True and False as the
\* integers 1 and 0.
C18_WellFormed(tokens) ==
    /\ tokens.list
    /\ Len(tokens.items) >= 1
    /\ \A i \in 1..Len(tokens.items) :
          LET t == tokens.items[i] IN
          /\ t.dict /\ t.has_token /\ t.has_pos
          /\ t.pos_type \in {"int", "bool"}
          /\ t.pos >= 0

\* The tokens values a translation call was given.
C18_Given(r) ==
    IF r.op = "create" THEN {r.input[1].tag}
    ELSE IF r.op = "update" THEN {r.input[1].to.tag}
    ELSE {r.input[i].tag : i \in 1..Len(r.input)}

C19_SameInstant(x, y) ==
    /\ x = {} <=> y = {}
    /\ \A a \in x, b \in y :
          /\ a.micro = b.micro
          /\ a.tzinfo = {} <=> b.tzinfo = {}
          /\ a.tzinfo = {} => a.wall = b.wall
          /\ \A s \in a.tzinfo, t \in b.tzinfo :
                a.wall - s.offset = b.wall - t.offset

\* C19: for every entity, to_dict followed by from_dict yields an entity
\* equal to the original in every field: the timestamps denote the same
\* instant, the metadata map is unchanged, and absent timestamps and ids
\* stay absent.
C19_RoundTrip ==
    res.op = "from_dict" =>
       LET e == res.input[1]
           back == res.out[2]
       IN /\ back.kind = e.kind
          /\ back.id = e.id
          /\ back.metadata = e.metadata
          /\ back.own = e.own
          /\ C19_SameInstant(e.created_at, back.created_at)
          /\ C19_SameInstant(e.updated_at, back.updated_at)

\* An entity without id or updated_at, whose created_at is in a named zone
\* and has microseconds, went through the round trip: the timestamp came
\* back with a fixed-offset zone.
C19_Witness ==
    /\ res.op = "from_dict"
    /\ res.input[1].id = None /\ res.input[1].updated_at = {}
    /\ res.out[2].updated_at = {}
    /\ \E a \in res.input[1].created_at, b \in res.out[2].created_at :
          /\ a.micro = 1 /\ a.tzinfo = {[named |-> TRUE, offset |-> 1]}
          /\ b.tzinfo = {[named |-> FALSE, offset |-> 1]}

\* C20: get_token_text() returns the token strings joined by single spaces
\* in non-decreasing order of pos, so for tokens with distinct positions
\* the result is the same for every storage order of the token list (tokens
\* Mundo@1, Hola@0 give 'Hola Mundo'); it returns the empty string when
\* there are no tokens.
C20_TokenText ==
    res.op = "get_token_text" =>
       LET tokens == res.input
           text == res.out
           n == Len(tokens)
       IN /\ n = 0 => text = <<>>
          /\ n > 0 => Len(text) = 2 * n - 1
          /\ \A i \in 1..(n - 1) : text[2 * i] = " "
          /\ \E order \in [1..n -> 1..n] :
                /\ \A i, j \in 1..n : i # j => order[i] # order[j]
                /\ \A i \in 1..n : text[2 * i - 1] = tokens[order[i]].token
                /\ \A i \in 1..(n - 1) :
                      tokens[order[i]].pos <= tokens[order[i + 1]].pos
          /\ (\A i, j \in 1..n : i # j => tokens[i].pos # tokens[j].pos)
                => \A i \in 1..n :
                      text[2 * Cardinality({j \in 1..n : tokens[j].pos <= tokens[i].pos}) - 1]
                         = tokens[i].token

\* Mundo@1 stored before Hola@0 read as 'Hola Mundo'.
C20_Witness ==
    /\ res.op = "get_token_text"
    /\ res.input = <<Tok("Mundo", 1), Tok("Hola", 0)>>
    /\ res.out = <<"Hola", " ", "Mundo">>

\* No tokens read as the empty string.
C20_EmptyText ==
    /\ res.op = "get_token_text" /\ res.input = <<>> /\ res.out = <<>>

C22_Updated(c, kind, id) ==
    /\ call[c].op = "returned" /\ call[c].of = "update"
    /\ call[c].status = "ok"
    /\ call[c].kind = kind /\ call[c].id = id

\* C22: when two pool-bound update() calls on the same row, each supplying a
\* different field, run concurrently and both return successfully, the
\* stored row afterwards holds both new values: no update is lost by the
\* other call writing back the value it read earlier.
C22_NoLostUpdate ==
    \A c \in Callers : \A d \in Callers \ {c} :
       \A r \in db["Link"] :
          (/\ C22_Updated(c, "Link", r.id) /\ C22_Updated(d, "Link", r.id)
           /\ call[c].patch.keys \cap call[d].patch.keys = {}
           /\ \A e \in Callers \ {c, d} : call[e] = NoCall)
          => /\ \A f \in call[c].patch.keys : r[f] = call[c].patch.to[f]
             /\ \A f \in call[d].patch.keys : r[f] = call[d].patch.to[f]

\* Two update() calls on link 1 both returned successfully, one having set
\* the content and the other having cleared is_active, and the stored link
\* is inactive with its old content.
C22_Witness ==
    \E c \in Callers : \E d \in Callers \ {c} :
       /\ C22_Updated(c, "Link", 1) /\ C22_Updated(d, "Link", 1)
       /\ call[c].patch.keys = {"tag"} /\ call[d].patch.keys = {"is_active"}
       /\ \E r \in db["Link"] : r.id = 1 /\ r.tag = 0 /\ r.is_active = FALSE

\* Every child row of the store references a row of its parent table.
C23_Referenced(store) ==
    \A kind \in ChildKinds :
       \A r \in store[kind] : r.parent \in Ids(store[ParentKind(kind)])

\* C23: in every committed state reachable by any interleaving of
\* pool-bound child create / bulk_create calls with concurrent parent delete
\* calls, every TextSource row references an existing Project and every
\* Summary, Translation, Video and Link row references an existing
\* TextSource; a create that loses the race with the parent's deletion
\* inserts no row.
C23_NoOrphans ==
    [][/\ C23_Referenced(db')
       /\ \A c \in Callers :
             (/\ call[c].op = "insert" /\ call'[c].op = "returned"
              /\ \E i \in 1..Len(call[c].batch) :
                    call[c].batch[i].parent \notin Ids(db[ParentKind(call[c].kind)]))
             => (call'[c].status = "DatabaseError" /\ db' = db)]_vars

\* A create() found its project, the project was deleted, and the INSERT
\* then failed and stored nothing.
C23_Witness ==
    /\ res.op = "create" /\ res.kind = "TextSource"
    /\ res.status = "DatabaseError" /\ res.stmts = 2
    /\ res.input[1].parent = 1
    /\ db["Project"] = {} /\ db["TextSource"] = {}
    /\ seq["Project"] = 1

\* C24: every failure of a repository create(), pool-bound or through a
\* transaction context, is a ValidationError (raised before any statement),
\* a NotFoundError for a missing parent, or a DatabaseError wrapping the
\* lower-level cause (its subclass DatabaseConnectionError included); no
\* other exception type escapes, and a failed create leaves no row inserted.
C24_TypedFailure ==
    [][(res'.op = "create" /\ res' # res /\ res'.status # "ok")
       => /\ res'.status \in {"ValidationError", "NotFoundError",
                              "DatabaseError", "DatabaseConnectionError"}
          /\ res'.status = "ValidationError" => res'.stmts = 0
          /\ db' = db /\ \A k \in Kinds : ViewAfter("ctx")[k] \subseteq TxView[k]]_vars

\* A context repository's create() let the driver's error out unwrapped,
\* and stored nothing.
C24_Witness ==
    /\ res.op = "create" /\ res.repo = "ctx"
    /\ res.status = "psycopg2.Error"
    /\ res.input[1].ok /\ res.input[1].parent > 0
    /\ tx.open /\ tx.aborted /\ Issued = 1

\* C25: if pool creation or the liveness probe fails, initialize() raises
\* DatabaseConnectionError and leaves a fresh handler as it was before the
\* call: not initialized (repository access still raises), without a pool
\* (get_connection() still raises), and with no pooled connection open or
\* checked out.
C25_FailedInitialize ==
    [][(/\ res'.op = "initialize" /\ res'.status # "ok"
        /\ (res' # res \/ handler' # handler)
        /\ pool = NoPool /\ ~handler.initialized)
       => /\ res'.status = "DatabaseConnectionError"
          /\ ~handler'.initialized
          /\ pool' = NoPool]_vars

\* initialize() failed at the probe on a fresh handler: the handler is not
\* initialized, yet it has a pool with an open connection.
C25_Witness ==
    /\ res.op = "initialize" /\ res.status = "DatabaseConnectionError"
    /\ ~handler.initialized /\ handler.pools = 1 /\ handler.closes = 0
    /\ pool # NoPool /\ pool.idle # {} /\ pool.used = {}

\* C26: when all pool_size + max_overflow connections are checked out, a
\* further get_connection() / transaction() entry ends by raising
\* DatabaseConnectionError: in that one step it checks out nothing, returns
\* nothing to the pool, and leaves every caller's scope and connection as
\* they were.
C26_ExhaustedAcquire ==
    [][(/\ pool # NoPool
        /\ pool.idle = {} /\ Cardinality(pool.used) = pool.maxconn
        /\ res'.op = "get_connection"
        /\ \A c \in Callers : scope[c] # "finally" \/ scope'[c] = "finally")
       => /\ res'.status = "DatabaseConnectionError"
          /\ pool' = pool /\ scope' = scope /\ conn' = conn]_vars

\* With pool_size + max_overflow = 2 connections held by two callers, the
\* third caller's acquisition was refused.
C26_Witness ==
    /\ pool.maxconn = 2 /\ Cardinality(pool.used) = 2 /\ pool.idle = {}
    /\ res.op = "get_connection" /\ res.status = "DatabaseConnectionError"
    /\ Cardinality({c \in Callers : scope[c] \in {"connection", "transaction"}}) = 2
    /\ \E c \in Callers : scope[c] = "out" /\ conn[c] = 0

\* C27: DatabaseConnectionError is raised only when pool creation or
\* connection acquisition failed: a statement that fails after its
\* connection was acquired (a failing query of get_by_id or list) reaches
\* the caller as a generic DatabaseError, not as DatabaseConnectionError.
C27_StatementFailure ==
    [][(/\ res'.op \in QueryOps /\ res' # res
        /\ res'.stmts > 0
        /\ res'.status \notin {"ok", "NotFoundError"})
       => res'.status = "DatabaseError"]_vars

\* get_by_id() acquired a connection, its SELECT failed, and the caller got
\* DatabaseConnectionError; the connection is back in the pool.
C27_Witness ==
    /\ res.op = "get_by_id" /\ res.kind = "TextSource" /\ res.id = 1
    /\ res.stmts = 1 /\ res.rollbacks = 1
    /\ res.status = "DatabaseConnectionError"
    /\ pool.used = {} /\ pool.idle # {}
    /\ db["TextSource"] # {}

C29_ExitAfterClose ==
    [][\A c \in Callers :
          (scope[c] = "finally" /\ scope'[c] = "out" /\ handler.closes > 0)
          => res' = res]_vars

\* A caller's scope ended normally after close() ran under it, and leaving
\* the scope raised AttributeError.
C29_Witness ==
    /\ res.op = "finally" /\ res.status = "AttributeError"
    /\ res.out # <<0>>
    /\ handler.closes = 1 /\ pool = NoPool
    /\ \E c \in Callers : scope[c] = "out" /\ conn[c] = 0

\* C30: once a transaction() scope has exited and its connection is back in
\* the pool, the repositories of that scope's context can no longer execute
\* statements on that connection: a call on them executes no statement.
C30_ContextEnds ==
    [][(/\ res'.repo = "ctx" /\ res'.op = "get_by_id" /\ res' # res
        /\ scope[ScopeCaller] = "out" /\ ~tx.open)
       => res'.stmts = 0]_vars

\* The scope has exited, its connection is checked out by another caller,
\* and the kept context's repository read a row on it.
C30_Witness ==
    /\ res.repo = "ctx" /\ res.op = "get_by_id"
    /\ res.status = "ok" /\ res.stmts = 1
    /\ scope[ScopeCaller] = "out" /\ ~tx.open
    /\ call[ScopeCaller].op = "context"
    /\ \E c \in OtherCallers : conn[c] = call[ScopeCaller].connection

\* C31: every open transaction() scope, one opened inside another scope's
\* block included, holds a connection of its own, distinct from that of
\* every other open scope, and the commit or rollback of one scope never
\* changes whether the writes of another scope are committed.
C31_OwnConnection ==
    [][/\ \A c \in OpenScopes' : \A d \in OpenScopes' \ {c} :
             conn'[c] # conn'[d] /\ conn'[c] \in pool'.used
       /\ \A c \in OpenScopes : \A d \in OpenScopes \ {c} :
             (call'[c] = NoCall)
             => /\ call'[d] = call[d]
                /\ \A r \in call[d].put : (r \in db'["Project"]) = (r \in db["Project"])]_vars

\* The inner scope committed its project while the outer scope, with a
\* project of its own still uncommitted, stays open.
C31_Witness ==
    /\ res.op = "transaction" /\ res.status = "ok" /\ res.touched = 1
    /\ res.input = <<2>>
    /\ call[1].op = "scope" /\ call[1].put # {}
    /\ call[1].put \cap db["Project"] = {}
    /\ Cardinality(db["Project"]) = 1

\* The callers whose delete(id) of a project got as far as its DELETE and
\* has returned.
C32_Ran(id) ==
    {c \in Callers : /\ call[c].op = "returned" /\ call[c].of = "delete"
                     /\ call[c].id = id
                     /\ call[c].status \in {"True", "False"}}

\* C32: delete(id) returns True exactly when that call removed the row; on
\* an id with no row it fails with NotFoundError and changes nothing; after
\* it returned True, get_by_id(id) fails with NotFoundError; and among
\* concurrent delete(id) calls for the same row exactly one returns True.
C32_DeleteOnce ==
    [][/\ \A c \in Callers :
             (call[c].op = "delete" /\ call'[c].op = "returned")
             => /\ call'[c].status \in {"True", "False"}
                /\ (call'[c].status = "True")
                      <=> (/\ GetById(db, call[c].kind, call[c].id) # {}
                           /\ GetById(db', call[c].kind, call[c].id) = {})
                /\ call'[c].status = "False" => db' = db
       /\ \A c \in Callers :
             (call[c] = NoCall /\ call'[c].op = "returned")
             => (call'[c].status = "NotFoundError" /\ db' = db)
       /\ (res'.op = "get_by_id" /\ res' # res
           /\ \E c \in Callers : /\ call[c].op = "returned"
                                 /\ call[c].status = "True"
                                 /\ call[c].id = res'.id)
          => res'.status = "NotFoundError"
       /\ \A id \in 1..MaxDeleted :
             C32_Ran(id)' # {}
             => Cardinality({c \in C32_Ran(id)' : call'[c].status = "True"}) = 1]_vars

\* Two callers found project 1 and ran their DELETE: one returned True, the
\* other False, and the project is gone.
C32_Witness ==
    /\ call[1].op = "returned" /\ call[1].of = "delete" /\ call[1].id = 1
    /\ call[2].op = "returned" /\ call[2].of = "delete" /\ call[2].id = 1
    /\ {call[1].status, call[2].status} = {"True", "False"}
    /\ GetById(db, "Project", 1) = {}
    /\ res.op = "get_by_id" /\ res.id = 1 /\ res.status = "NotFoundError"

\* C33: update(id, data) fails with NotFoundError, and writes nothing,
\* whenever no row with that id exists when the update is applied: when the
\* row is missing at the update's read, and when another caller removed it
\* between the update's read and its write.
C33_UpdateOfMissing ==
    [][\A c \in Callers :
          (/\ call'[c].op = "returned" /\ call'[c] # call[c]
           /\ call'[c].of = "update"
           /\ GetById(db, call'[c].kind, call'[c].id) = {})
          => (call'[c].status = "NotFoundError" /\ db' = db)]_vars

\* update(1, ...) read project 1, another caller deleted it, and the update
\* then failed with DatabaseError.
C33_Witness ==
    /\ \E c \in Callers :
          /\ call[c].op = "returned" /\ call[c].of = "update"
          /\ call[c].id = 1 /\ call[c].read # {}
          /\ call[c].status = "DatabaseError"
    /\ res.op = "update" /\ res.status = "DatabaseError" /\ res.stmts = 2
    /\ GetById(db, "Project", 1) = {}

\* The rules of Link.validate() and Video.validate() on the fields an
\* update can set: required strings, length limits, a URL that parses, and
\* sizes and durations that are not negative.
C34_Violates(kind, e) ==
    \/ \E f \in DOMAIN Limits(kind) : e[f].len > Limits(kind)[f]
    \/ kind = "Link" /\ (e.url.len = 0 \/ e.url.blank \/ ~e.url_parses)
    \/ kind = "Video" /\ (e.file_path.len = 0 \/ e.file_path.blank)
    \/ kind = "Video" /\ \E n \in e.file_size \cup e.duration : n < 0

\* C34: an update(id, partial_data) whose merged entity violates a
\* validation rule fails with ValidationError before any write statement is
\* issued (the read is its only statement), and the stored row, its
\* updated_at included, is exactly as it was before the call.
C34_RejectedUpdate ==
    [][(/\ res'.op = "update" /\ res' # res
        /\ res'.kind \in Revalidated
        /\ res'.status # "NotFoundError"
        /\ "tag" \in res'.input[1].keys
        /\ C34_Violates(res'.kind, res'.input[1].to.tag))
       => /\ res'.status = "ValidationError"
          /\ res'.stmts = 1
          /\ db' = db
          /\ ViewAfter(res'.repo) = View(res'.repo)]_vars

\* A stored link was updated with a description one character over its
\* limit: the call failed and the row is as it was.
C34_Witness ==
    /\ res.op = "update" /\ res.kind = "Link" /\ res.repo = "pool"
    /\ res.status = "ValidationError"
    /\ res.input[1].to.tag = [Fine("Link") EXCEPT !.description = Str(1001, FALSE)]
    /\ \E r \in db["Link"] : r.id = 1 /\ r.tag = Fine("Link") /\ r.updated_at = 0

\* C35: the entity returned by a successful update(id, partial_data) equals,
\* field by field (id, parent reference, created_at, updated_at and every
\* attribute), the row that get_by_id(id) returns immediately afterwards,
\* for every partial_data.
C35_ReturnsStored ==
    [][(res'.op = "update" /\ res' # res /\ res'.status = "ok")
       => res'.out[1] \in GetById(ViewAfter(res'.repo), res'.kind, res'.id)]_vars

\* A pool-bound update naming created_at succeeded: the entity returned
\* carries the new value, the stored row the old one.
C35_Witness ==
    /\ res.op = "update" /\ res.repo = "pool" /\ res.status = "ok"
    /\ res.kind = "Project"
    /\ res.input[1].keys = {"id", "created_at"}
    /\ \E r \in GetById(db, "Project", res.id) :
          /\ r.created_at # res.out[1].created_at
          /\ r.id # res.out[1].id
          /\ r.updated_at = res.out[1].updated_at

\* C36: inside one transaction() scope, a child create through the context
\* whose parent was created earlier in the same scope succeeds (the
\* parent-existence check runs on the scope's connection and sees the
\* uncommitted parent); until the scope ends none of its rows is committed,
\* and on normal exit parent and children become committed in one step.
C36_ParentInScope ==
    [][/\ (/\ res'.op = "create" /\ res' # res /\ res'.repo = "ctx"
           /\ res'.kind \in ChildKinds
           /\ Valid(res'.kind, res'.input[1])
           /\ res'.input[1].parent \in Ids(tx.put[ParentKind(res'.kind)])
           /\ res'.status # "DatabaseError")
          => /\ res'.status = "ok"
             /\ res'.out[1] \in tx'.put[res'.kind]
             /\ res'.out[1].parent = res'.input[1].parent
             /\ db' = db
       /\ (tx.open /\ tx'.open) => db' = db
       /\ (/\ res'.op = "transaction_exit" /\ res'.status = "ok"
           /\ tx.open /\ ~tx'.open /\ ~tx.aborted)
          => \A k \in Kinds : tx.put[k] \subseteq db'[k]]_vars

\* A scope created a project and a text source under it, and its normal
\* exit committed both.
C36_Witness ==
    /\ res.op = "transaction_exit" /\ res.status = "ok" /\ res.touched = 2
    /\ Issued = 2
    /\ \E p \in db["Project"] : \E t \in db["TextSource"] : t.parent = p.id

\* C37: in every state reachable through Link create, update, deactivate,
\* activate, bulk_create, bulk_deactivate_by_domain and delete,
\* get_statistics returns total_links = active_links + inactive_links,
\* globally and for one text source.
C37_Totals ==
    res.op = "get_statistics" =>
       res.out[1].total_links
          = res.out[1].active_links + res.out[1].inactive_links

\* One link was created with is_active None; the statistics of its text
\* source count one link, none active and none inactive.
C37_Witness ==
    /\ res.op = "get_statistics" /\ res.id = 1
    /\ res.out[1] = [total_links |-> 1, active_links |-> 0, inactive_links |-> 0]
    /\ \E r \in db["Link"] : r.parent = 1 /\ r.is_active = "null"

\* Reading a formatted text back: the places of ":" and the fields between.
C39_Colons(t) == {i \in 1..Len(t) : t[i] = ":"}

C39_Field(t, k) ==
    LET cs == C39_Colons(t)
        a == CHOOSE i \in cs : \A j \in cs : i <= j
        b == CHOOSE i \in cs : \A j \in cs : j <= i
    IN  CASE k = 1 -> SubSeq(t, 1, a - 1)
          [] k = 2 -> SubSeq(t, a + 1, b - 1)
          [] OTHER -> SubSeq(t, b + 1, Len(t))

C39_IsNumber(f) ==
    Len(f) >= 1 /\ \A i \in 1..Len(f) : \E k \in 1..10 : DigitChars[k] = f[i]

RECURSIVE C39_Value(_)
C39_Value(f) ==
    IF Len(f) = 0 THEN 0
    ELSE 10 * C39_Value(SubSeq(f, 1, Len(f) - 1))
           + (CHOOSE k \in 0..9 : DigitChars[k + 1] = f[Len(f)])

\* The text reads H:M:S with M and S two digits in 0..59 and
\* 3600*H + 60*M + S = d.
C39_Reads(t, d) ==
    /\ Cardinality(C39_Colons(t)) = 2
    /\ \A k \in 1..3 : C39_IsNumber(C39_Field(t, k))
    /\ Len(C39_Field(t, 2)) = 2 /\ C39_Value(C39_Field(t, 2)) \in 0..59
    /\ Len(C39_Field(t, 3)) = 2 /\ C39_Value(C39_Field(t, 3)) \in 0..59
    /\ 3600 * C39_Value(C39_Field(t, 1)) + 60 * C39_Value(C39_Field(t, 2))
         + C39_Value(C39_Field(t, 3)) = d

C38_Done ==
    /\ call[ListCaller].op = "list"
    /\ call[ListCaller].offset >= Cardinality(db["Project"])

\* C38: on an unchanged table the pages list(limit, 0), list(limit, limit),
\* ... each hold at most limit rows in non-increasing created_at order and
\* together return every row exactly once, rows that share a created_at
\* (inserted by one bulk_create) included.
C38_Pages ==
    /\ res.op = "list" =>
          /\ Len(res.out) <= res.input[1]
          /\ \A i, j \in 1..Len(res.out) :
                i < j => res.out[i].created_at >= res.out[j].created_at
    /\ C38_Done =>
          LET seen == call[ListCaller].seen IN
          /\ \A i, j \in 1..Len(seen) : i # j => seen[i] # seen[j]
          /\ {seen[i] : i \in 1..Len(seen)} = Ids(db["Project"])

\* Two projects of one bulk_create were paged with limit 1: both pages
\* returned project 1 and project 2 was never returned.
C38_Witness ==
    /\ C38_Done
    /\ call[ListCaller].limit = 1
    /\ call[ListCaller].seen = <<1, 1>>
    /\ Ids(db["Project"]) = {1, 2}
    /\ \A r \in db["Project"] : r.created_at = 0

================================================================================
